---- MODULE Spec2Model ----
(***************************************************************************)
(* Crime-incident pipeline of the dashboard: CSV decoding (loadData /      *)
(* parseRow), record normalisation (cleanRecord), the provider state       *)
(* (CrimeDataProvider: loadData, filterData, toggleCensusOverlay,          *)
(* selectCensusMetric), the aggregation reducers of dataProcessing.js and  *)
(* the memoised views of useChartData.                                     *)
(*                                                                         *)
(* Text is modelled as a sequence of lexemes (one-character tokens for the *)
(* comma, the double quote and the blank; an opaque token for a run of     *)
(* other characters).  A decoded field is the concatenation of its tokens. *)
(***************************************************************************)
EXTENDS Integers, Sequences, FiniteSets, TLC

VARIABLES
  \* ---- CrimeDataProvider state (main.jsx:33-51) ----
  isLoading, error, rawData, filteredRawData, heatMapData, timeDistribution,
  crimeTypes, temporalTrends, census, censusCorrelations, showCensusOverlay,
  selectedCensusMetric, filters,
  \* ---- loadData: position in the async function and its locals ----
  loadPc, csvData,
  \* ---- decoder harness: one data row decoded against one header ----
  decHeaders, decRow, decValues, decObject, decPc,
  \* ---- ranking harness: one filtered collection and its rankings ----
  rankData, rankResult, rankChart, rankPc,
  \* ---- aggregation harness: one filtered collection and its views ----
  aggData, aggViews, aggPc,
  \* ---- area harness: the memo of NeighborhoodAnalysis on one store and FilterSpec ----
  areaRaw, areaFilters, areaViews, areaPc,
  \* ---- census harness: the eight fetched reference tables and the result of loadCensusData ----
  cenTables, cenResult, cenPc,
  \* ---- correlation harness: one call of getCorrelationText ----
  corrMetric, corrValue, corrIncidents, corrNeighborhoods, corrOut, corrPc,
  \* ---- Filters component (harness) ----
  selectedShifts, selectedCrimeTypes, startDate, endDate, mountFilters, passedFilters, fltPc

providerVars == <<isLoading, error, rawData, filteredRawData, heatMapData,
                  timeDistribution, crimeTypes, temporalTrends, census,
                  censusCorrelations, showCensusOverlay, selectedCensusMetric,
                  filters>>
loaderVars == <<loadPc, csvData>>
decVars == <<decHeaders, decRow, decValues, decObject, decPc>>
rankVars == <<rankData, rankResult, rankChart, rankPc>>
aggVars == <<aggData, aggViews, aggPc>>
areaVars == <<areaRaw, areaFilters, areaViews, areaPc>>
cenVars == <<cenTables, cenResult, cenPc>>
corrVars == <<corrMetric, corrValue, corrIncidents, corrNeighborhoods, corrOut, corrPc>>
fltVars == <<selectedShifts, selectedCrimeTypes, startDate, endDate, mountFilters, passedFilters, fltPc>>
harnessVars == <<decVars, rankVars, aggVars, areaVars, cenVars, corrVars, fltVars>>
vars == <<providerVars, loaderVars, decVars, rankVars, aggVars, areaVars, cenVars, corrVars, fltVars>>

(***************************************************************************)
(* Bounds of the model.                                                    *)
(***************************************************************************)
MaxRowLen == 5          \* lexemes in a row of the decoder harness
MaxHeaderLen == 3       \* columns of a header of the decoder harness
MaxRows == 2            \* data rows of a CSV file handed to loadData
MaxRankLen == 12        \* incidents of a collection of the ranking harness
MaxAreaLen == 10        \* incidents of a store of the area harness
MaxCensusFaults == 2    \* reference tables that are not the complete table
MaxAreaTotal == 5       \* total of an area handed to the correlation annotator
MaxAggLen == 3          \* incidents of a collection of the aggregation harness
DaysInYear == 3         \* calendar days of the target year (days 1..DaysInYear)

(***************************************************************************)
(* Lexemes and string helpers.                                             *)
(***************************************************************************)
COMMA == ","
QUOTE == "\""
BLANK == " "

RECURSIVE Join(_)
\* concatenation of the lexemes of a sequence into one string
Join(s) == IF s = <<>> THEN "" ELSE Head(s) \o Join(Tail(s))

RECURSIVE TrimLeft(_)
TrimLeft(s) ==
  IF s # <<>> /\ Head(s) = BLANK THEN TrimLeft(Tail(s)) ELSE s

RECURSIVE TrimRight(_)
TrimRight(s) ==
  IF s # <<>> /\ s[Len(s)] = BLANK THEN TrimRight(SubSeq(s, 1, Len(s) - 1)) ELSE s

\* String.prototype.trim on a lexeme sequence
Trim(s) == TrimRight(TrimLeft(s))

\* value.replace(/^"|"$/g, ''): drop one leading and one trailing quote
StripWrappingQuotes(s) ==
  LET a == IF s # <<>> /\ Head(s) = QUOTE THEN Tail(s) ELSE s
  IN  IF a # <<>> /\ a[Len(a)] = QUOTE THEN SubSeq(a, 1, Len(a) - 1) ELSE a

RECURSIVE CommaRun(_, _)
\* number of consecutive commas of row starting at position i
CommaRun(row, i) ==
  IF i <= Len(row) /\ row[i] = COMMA THEN 1 + CommaRun(row, i + 1) ELSE 0

RECURSIVE parseRowLoop(_, _, _, _, _)
\* the for-loop of parseRow: i is the 1-based index, values the fields pushed
\* so far (trimmed lexeme sequences), cur is currentValue
parseRowLoop(row, i, values, cur, inQuotes) ==
  IF i > Len(row) THEN values
  ELSE LET char == row[i] IN
    IF char = QUOTE
      THEN parseRowLoop(row, i + 1, values, cur, ~inQuotes)
    ELSE IF char = COMMA /\ ~inQuotes
      THEN LET k == CommaRun(row, i + 1)
           IN  parseRowLoop(row, i + 1 + k,
                            values \o <<Trim(cur)>> \o [j \in 1..k |-> <<>>],
                            <<>>, inQuotes)
    ELSE IF i = Len(row)
      THEN parseRowLoop(row, i + 1, Append(values, Trim(Append(cur, char))),
                        Append(cur, char), inQuotes)
    ELSE parseRowLoop(row, i + 1, values, Append(cur, char), inQuotes)

RECURSIVE parseRowLoopUnquoted(_, _, _, _, _)
\* the same loop with the comma test written without the quoted state
parseRowLoopUnquoted(row, i, values, cur, inQuotes) ==
  IF i > Len(row) THEN values
  ELSE LET char == row[i] IN
    IF char = QUOTE
      THEN parseRowLoopUnquoted(row, i + 1, values, cur, ~inQuotes)
    ELSE IF char = COMMA
      THEN LET k == CommaRun(row, i + 1)
           IN  parseRowLoopUnquoted(row, i + 1 + k,
                            values \o <<Trim(cur)>> \o [j \in 1..k |-> <<>>],
                            <<>>, inQuotes)
    ELSE IF i = Len(row)
      THEN parseRowLoopUnquoted(row, i + 1,
                        Append(values, Trim(Append(cur, char))),
                        Append(cur, char), inQuotes)
    ELSE parseRowLoopUnquoted(row, i + 1, values, Append(cur, char), inQuotes)

parseRowUnquoted(row) ==
  LET values == parseRowLoopUnquoted(Append(row, BLANK), 1, <<>>, <<>>, FALSE)
  IN  [k \in 1..Len(values) |->
         Join(Trim(StripWrappingQuotes(Trim(values[k]))))]

\* parseRow (main.jsx:86-127): the decoded fields of one row, as strings
parseRow(row) ==
  LET values == parseRowLoop(Append(row, BLANK), 1, <<>>, <<>>, FALSE)
  IN  [k \in 1..Len(values) |->
         Join(Trim(StripWrappingQuotes(Trim(values[k]))))]

(***************************************************************************)
(* Row mapping of loadData (main.jsx:79, 129-158).                         *)
(***************************************************************************)
RECURSIVE SplitOnComma(_, _)
\* String.prototype.split(','): cur is the part being collected
SplitOnComma(line, cur) ==
  IF line = <<>> THEN <<cur>>
  ELSE IF Head(line) = COMMA THEN <<cur>> \o SplitOnComma(Tail(line), <<>>)
  ELSE SplitOnComma(Tail(line), Append(cur, Head(line)))

\* rows[0].split(',').map(header => header.trim())
parseHeaders(line) ==
  LET parts == SplitOnComma(line, <<>>)
  IN  [k \in 1..Len(parts) |-> Join(Trim(parts[k]))]

\* while (values.length < headers.length) values.push('')
padValues(values, n) ==
  IF Len(values) < n
    THEN values \o [j \in 1..(n - Len(values)) |-> ""]
    ELSE values

\* the absent result of a callback that returns null
NullObject == [isNull |-> TRUE, obj |-> <<>>]

\* headers.reduce((obj, header, i) => { obj[header] = values[i] || '' }, {}):
\* a later column of the same name overwrites an earlier one
objectOf(headers, values) ==
  [h \in {headers[i] : i \in 1..Len(headers)} |->
     LET last == CHOOSE i \in 1..Len(headers) :
                   /\ headers[i] = h
                   /\ \A j \in 1..Len(headers) : headers[j] = h => j <= i
     IN  values[last]]

\* the row mapping with the padding loop left out
rowToObjectNoPad(headers, row) ==
  LET values == parseRow(row)
  IN  IF Len(values) # Len(headers) THEN NullObject
      ELSE [isNull |-> FALSE, obj |-> objectOf(headers, values)]

\* rows.slice(1).map(row => ...) for one row (main.jsx:129-158)
rowToObject(headers, row) ==
  LET values == padValues(parseRow(row), Len(headers))
  IN  IF Len(values) # Len(headers) THEN NullObject
      ELSE [isNull |-> FALSE, obj |-> objectOf(headers, values)]

RECURSIVE decodeRows(_, _)
\* .map(...).filter(row => row !== null) over the data rows
decodeRows(headers, rows) ==
  IF rows = <<>> THEN <<>>
  ELSE LET r == rowToObject(headers, Head(rows))
       IN  (IF r.isNull THEN <<>> ELSE <<r.obj>>) \o decodeRows(headers, Tail(rows))

\* record.NAME of a decoded row: undefined and '' are both falsy, and every
\* reader of a field tests only its truthiness before using it
field(record, name) == IF name \in DOMAIN record THEN record[name] ELSE ""

(***************************************************************************)
(* Dates.  A timestamp is a day number and a slot of the day; its numeric  *)
(* value (the milliseconds of a JS Date) is day * SlotsPerDay + slot, which *)
(* is positive for every date of the data set.  A Date object may also be  *)
(* the Invalid Date, whose numeric value is NaN.                           *)
(***************************************************************************)
SlotsPerDay == 3        \* resolution of the time of day: 00:00, 08:00, 20:00

NullDate == [kind |-> "null", ms |-> 0]
InvalidDate == [kind |-> "invalid", ms |-> 0]
MkDate(day, slot) == [kind |-> "date", ms |-> day * SlotsPerDay + slot]

\* the timestamps written in the source format yyyy/MM/dd HH:mm:ss
TimestampTable ==
  "2024/01/01 08:00:00" :> MkDate(1, 1) @@
  "2024/01/01 20:00:00" :> MkDate(1, 2) @@
  "2024/01/02 08:00:00" :> MkDate(2, 1) @@
  "2024/01/02 20:00:00" :> MkDate(2, 2)

TzSuffixes == {"+00", "+05"}          \* the strings matched by /\+\d{2}$/
DateBodies == DOMAIN TimestampTable \cup {"", "n/a"}

\* dateString.replace(/\+\d{2}$/, '')
stripTz(s) ==
  IF \E b \in DateBodies, z \in TzSuffixes : s = b \o z
    THEN CHOOSE b \in DateBodies : \E z \in TzSuffixes : s = b \o z
    ELSE s

\* date-fns parse(string, 'yyyy/MM/dd HH:mm:ss', new Date()): the Invalid Date
\* when the string does not match the format
parse(s) == IF s \in DOMAIN TimestampTable THEN TimestampTable[s] ELSE InvalidDate

\* parseDate (dataProcessing.js:4-15)
parseDate(dateString) ==
  IF dateString = "" THEN NullDate ELSE parse(stripTz(dateString))

\* JS truthiness of a Date-or-null value: every Date object is truthy
Truthy(d) == d.kind # "null"
\* ToNumber of a Date-or-null value is a number (null is 0), or NaN
IsNumber(d) == d.kind # "invalid"
\* a < b and a > b of JS on Date-or-null values: false when either is NaN
Less(a, b) == IsNumber(a) /\ IsNumber(b) /\ a.ms < b.ms
Greater(a, b) == Less(b, a)

\* date-fns isValid
isValid(d) == d.kind = "date"
\* date-fns format(date, 'yyyy-MM-dd') of a valid date: its calendar day
dayKey(d) == d.ms \div SlotsPerDay
\* date-fns parseISO('yyyy-MM-dd'): local midnight of that day
parseISO(day) == MkDate(day, 0)

(***************************************************************************)
(* RecordNormalizer: cleanRecord and processData (dataProcessing.js).      *)
(***************************************************************************)
\* the numeric strings of the data set and their values
NumericValue == "38" :> 38 @@ "-77" :> (0 - 77) @@ "0" :> 0

\* parseFloat(s) || 0
parseFloatOrZero(s) == IF s \in DOMAIN NumericValue THEN NumericValue[s] ELSE 0

\* s || dflt
orDefault(s, dflt) == IF s = "" THEN dflt ELSE s

\* the fields of an incident that the filter and the reducers read
incidentOf(record, reportDate) ==
  [ latitude     |-> parseFloatOrZero(field(record, "LATITUDE")),
    longitude    |-> parseFloatOrZero(field(record, "LONGITUDE")),
    reportDate   |-> reportDate,
    shift        |-> orDefault(field(record, "SHIFT"), "UNKNOWN"),
    offense      |-> orDefault(field(record, "OFFENSE"), "UNKNOWN"),
    block        |-> field(record, "BLOCK"),
    neighborhood |-> field(record, "NEIGHBORHOOD_CLUSTER"),
    censusTract  |-> field(record, "CENSUS_TRACT") ]

\* cleanRecord (dataProcessing.js:18-69): <<>> stands for null
cleanRecord(record) ==
  LET reportDate == parseDate(field(record, "REPORT_DAT"))
  IN  IF ~Truthy(reportDate) THEN <<>>
      ELSE <<incidentOf(record, reportDate)>>

RECURSIVE cleanAll(_)
\* csvData.map(cleanRecord).filter(record => record !== null)
cleanAll(records) ==
  IF records = <<>> THEN <<>>
  ELSE cleanRecord(Head(records)) \o cleanAll(Tail(records))

(***************************************************************************)
(* AggregationEngine: the reducers of dataProcessing.js.                   *)
(***************************************************************************)
includes(list, x) == \E i \in 1..Len(list) : list[i] = x

RECURSIVE tally(_, _)
\* keys.reduce((acc, k) => { acc[k] = (acc[k] || 0) + 1 }, {}) followed by
\* Object.entries(acc): one <<key, count>> per key, in insertion order
tally(keys, acc) ==
  IF keys = <<>> THEN acc
  ELSE LET k == Head(keys)
           next == IF \E i \in 1..Len(acc) : acc[i][1] = k
                     THEN [i \in 1..Len(acc) |->
                             IF acc[i][1] = k THEN <<k, acc[i][2] + 1>> ELSE acc[i]]
                     ELSE Append(acc, <<k, 1>>)
       IN  tally(Tail(keys), next)

\* acc[k] || 0 of a tally
lookup(acc, k) ==
  IF \E i \in 1..Len(acc) : acc[i][1] = k
    THEN (CHOOSE e \in {acc[i] : i \in 1..Len(acc)} : e[1] = k)[2]
    ELSE 0

RECURSIVE insertByCountDesc(_, _)
\* position of e in a list sorted with (a, b) => b.count - a.count: the sort
\* is stable, so e goes behind every entry whose count is not smaller
insertByCountDesc(sorted, e) ==
  IF sorted = <<>> THEN <<e>>
  ELSE IF Head(sorted).count >= e.count
    THEN <<Head(sorted)>> \o insertByCountDesc(Tail(sorted), e)
    ELSE <<e>> \o sorted

RECURSIVE sortByCountDesc(_, _)
sortByCountDesc(entries, sorted) ==
  IF entries = <<>> THEN sorted
  ELSE sortByCountDesc(Tail(entries), insertByCountDesc(sorted, Head(entries)))

RECURSIVE insertByDateAsc(_, _)
\* position of e in a list sorted with (a, b) => a.date - b.date (stable)
insertByDateAsc(sorted, e) ==
  IF sorted = <<>> THEN <<e>>
  ELSE IF Head(sorted).date.ms <= e.date.ms
    THEN <<Head(sorted)>> \o insertByDateAsc(Tail(sorted), e)
    ELSE <<e>> \o sorted

RECURSIVE sortByDateAsc(_, _)
sortByDateAsc(entries, sorted) ==
  IF entries = <<>> THEN sorted
  ELSE sortByDateAsc(Tail(entries), insertByDateAsc(sorted, Head(entries)))

\* Array.prototype.slice(0, n)
sliceTo(list, n) == SubSeq(list, 1, IF Len(list) < n THEN Len(list) ELSE n)

TopCrimeTypes == 10     \* .slice(0, 10)
ShiftOrder == <<"DAY", "EVENING", "MIDNIGHT">>

\* processHeatMapData (dataProcessing.js:72-83)
processHeatMapData(data) ==
  LET kept == SelectSeq(data, LAMBDA incident :
                 incident.latitude # 0 /\ incident.longitude # 0)
  IN  [i \in 1..Len(kept) |->
         [ lat |-> kept[i].latitude, lng |-> kept[i].longitude,
           offense |-> kept[i].offense, reportDate |-> kept[i].reportDate,
           shift |-> kept[i].shift, weight |-> 1 ]]

\* processTimeDistribution (dataProcessing.js:86-97)
processTimeDistribution(data) ==
  LET shiftCounts == tally([i \in 1..Len(data) |-> data[i].shift], <<>>)
  IN  [i \in 1..Len(ShiftOrder) |->
         [shift |-> ShiftOrder[i], count |-> lookup(shiftCounts, ShiftOrder[i])]]

\* the ranking without the truncation to the top 10
processCrimeTypesUncapped(data) ==
  LET crimeCounts == tally([i \in 1..Len(data) |-> data[i].offense], <<>>)
      entries == [i \in 1..Len(crimeCounts) |->
                    [type |-> crimeCounts[i][1], count |-> crimeCounts[i][2]]]
  IN  sortByCountDesc(entries, <<>>)

\* processCrimeTypes (dataProcessing.js:100-110)
processCrimeTypes(data) ==
  LET crimeCounts == tally([i \in 1..Len(data) |-> data[i].offense], <<>>)
      entries == [i \in 1..Len(crimeCounts) |->
                    [type |-> crimeCounts[i][1], count |-> crimeCounts[i][2]]]
  IN  sliceTo(sortByCountDesc(entries, <<>>), TopCrimeTypes)

\* processTemporalTrends (dataProcessing.js:113-140): format throws on the
\* Invalid Date and the catch skips the incident
processTemporalTrends(data) ==
  LET dated == SelectSeq(data, LAMBDA incident :
                 Truthy(incident.reportDate) /\ isValid(incident.reportDate))
      dailyCounts == tally([i \in 1..Len(dated) |-> dayKey(dated[i].reportDate)], <<>>)
      entries == [i \in 1..Len(dailyCounts) |->
                    [date |-> parseISO(dailyCounts[i][1]), count |-> dailyCounts[i][2]]]
  IN  sortByDateAsc(entries, <<>>)

\* correlateCrimeWithCensus (censusDataProcessing: 289-341): one entry per
\* census tract of the collection, the tractless incidents left out
ViolentCrimeTypes == {"HOMICIDE", "ASSAULT W/DANGEROUS WEAPON", "SEX ABUSE", "ROBBERY"}

correlateCrimeWithCensus(crimeData, censusData) ==
  LET tractOf(crime) == orDefault(crime.censusTract, "unknown")
      crimeByTract == tally([i \in 1..Len(crimeData) |-> tractOf(crimeData[i])], <<>>)
      known == SelectSeq(crimeByTract, LAMBDA e : e[1] # "unknown")
  IN  [i \in 1..Len(known) |->
         [ tract |-> known[i][1],
           totalCrimes |-> known[i][2],
           violentCrimes |-> Len(SelectSeq(crimeData, LAMBDA crime :
                               /\ tractOf(crime) = known[i][1]
                               /\ crime.offense \in ViolentCrimeTypes)) ]]

(***************************************************************************)
(* FilterEngine: the predicate of filterData (main.jsx:209-237) and the    *)
(* one of useChartData (useChartData.js:9-31).                             *)
(***************************************************************************)
NullRange == [kind |-> "null", start |-> NullDate, end |-> NullDate]
MkRange(s, e) == [kind |-> "range", start |-> s, end |-> e]

\* the predicate without the tests for an empty list
retainsNoEmptyCheck(incident, F) ==
  /\ F.dateRange.kind = "range" =>
       /\ ~(Truthy(F.dateRange.start) /\
            (~Truthy(incident.reportDate) \/ Less(incident.reportDate, F.dateRange.start)))
       /\ ~(Truthy(F.dateRange.end) /\
            (~Truthy(incident.reportDate) \/ Greater(incident.reportDate, F.dateRange.end)))
  /\ includes(F.crimeTypes, incident.offense)
  /\ includes(F.shifts, incident.shift)

\* the callback of prev.rawData.filter in filterData (main.jsx:209-237)
retains(incident, F) ==
  /\ F.dateRange.kind = "range" =>
       /\ ~(Truthy(F.dateRange.start) /\
            (~Truthy(incident.reportDate) \/ Less(incident.reportDate, F.dateRange.start)))
       /\ ~(Truthy(F.dateRange.end) /\
            (~Truthy(incident.reportDate) \/ Greater(incident.reportDate, F.dateRange.end)))
  /\ ~(Len(F.crimeTypes) > 0 /\ ~includes(F.crimeTypes, incident.offense))
  /\ ~(Len(F.shifts) > 0 /\ ~includes(F.shifts, incident.shift))

filterIncidents(data, F) == SelectSeq(data, LAMBDA incident : retains(incident, F))

\* the callback of rawData.filter in useChartData (useChartData.js:10-30)
chartRetains(incident, F) ==
  /\ F.dateRange.kind = "range" =>
       ~(Less(incident.reportDate, F.dateRange.start) \/
         Greater(incident.reportDate, F.dateRange.end))
  /\ ~(Len(F.crimeTypes) > 0 /\ ~includes(F.crimeTypes, incident.offense))
  /\ ~(Len(F.shifts) > 0 /\ ~includes(F.shifts, incident.shift))

\* filteredData of useChartData
chartFilteredData(data, F) == SelectSeq(data, LAMBDA incident : chartRetains(incident, F))

\* crimeTypes of useChartData (useChartData.js:46-54)
chartCrimeTypes(filteredData) ==
  LET crimeTypeCounts == tally([i \in 1..Len(filteredData) |-> filteredData[i].offense], <<>>)
      entries == [i \in 1..Len(crimeTypeCounts) |->
                    [type |-> crimeTypeCounts[i][1], count |-> crimeTypeCounts[i][2],
                     total |-> Len(filteredData)]]
  IN  sliceTo(sortByCountDesc(entries, <<>>), TopCrimeTypes)

(***************************************************************************)
(* The inputs of loadData: CSV files (as their lines), fetch outcomes and  *)
(* the outcome of loadCensusData.                                          *)
(***************************************************************************)
HeaderLine ==
  <<"LATITUDE", ",", " ", "LONGITUDE", ",", "REPORT_DAT", ",", "SHIFT", ",",
    "OFFENSE", ",", "NEIGHBORHOOD_CLUSTER", ",", "CENSUS_TRACT">>
HeaderWithoutLongitude == <<"LATITUDE", ",", "REPORT_DAT", ",", "OFFENSE">>
BlankLine == <<" ">>

\* a complete row, with a timezone suffix on the timestamp
RowTheftDay ==
  <<"38", ",", "-77", ",", "2024/01/01 08:00:00", "+00", ",", "DAY", ",",
    "THEFT/OTHER", ",", "Cluster 1", ",", "T1">>
\* a quoted field with an embedded comma, and no census tract (short row)
RowHomicideEvening ==
  <<"38", ",", "-77", ",", "2024/01/02 20:00:00", ",", "EVENING", ",",
    "HOMICIDE", ",", "\"", "Cluster 2", ",", " ", "East", "\"">>
\* unparseable coordinates and a short row
RowTheftMidnight ==
  <<",", "abc", ",", "2024/01/02 08:00:00", "+00", ",", "MIDNIGHT", ",",
    "THEFT/OTHER">>
\* a report date that is not in the source format
RowBadDate ==
  <<"38", ",", "-77", ",", "n/a", ",", "DAY", ",", "ROBBERY", ",",
    "Cluster 1", ",", "T1">>
\* no report date at all
RowNoDate == <<"38", ",", "-77">>
\* an unquoted comma inside a field: one field more than the header
RowTooLong ==
  <<"38", ",", "-77", ",", "2024/01/01 20:00:00", ",", "DAY", ",",
    "THEFT/OTHER", ",", "Cluster 2", ",", " ", "East", ",", "T1">>

\* the rows that cleanRecord admits, in any number and order
RowPool == {RowTheftDay, RowHomicideEvening, RowTheftMidnight, RowBadDate}

RECURSIVE SeqsUpTo(_, _)
\* the sequences over S of length 0..n
SeqsUpTo(S, n) ==
  IF n = 0 THEN {<<>>}
  ELSE LET shorter == SeqsUpTo(S, n - 1)
       IN  shorter \cup {Append(s, x) : s \in shorter, x \in S}

\* texts that do not decode, texts with a row that is dropped or rejected,
\* and the texts of 1..MaxRows admitted rows
CsvFiles ==
  {<<BlankLine>>, <<HeaderLine, BlankLine>>, <<HeaderWithoutLongitude, RowTheftDay>>,
   <<HeaderLine, RowTooLong>>, <<HeaderLine, RowTooLong, BlankLine, RowTheftDay>>,
   <<HeaderLine, RowNoDate>>, <<HeaderLine, RowHomicideEvening, RowNoDate>>}
  \cup {<<HeaderLine>> \o rows : rows \in SeqsUpTo(RowPool, MaxRows) \ {<<>>}}

FetchFailures == {"HTTP error! status: 404", "Failed to fetch"}
CensusFailures == {"Failed to load income data: 404"}

NullCensus == [kind |-> "null"]
LoadedCensus == [kind |-> "loaded"]

NoError == "null"
CensusMetrics == {"income", "poverty"}

(***************************************************************************)
(* The FilterSpecs handed to filterData.                                   *)
(***************************************************************************)
EmptyFilterSpec == [dateRange |-> NullRange, crimeTypes |-> <<>>, shifts |-> <<>>]

DateRanges ==
  {NullRange, MkRange(NullDate, NullDate), MkRange(parseISO(2), NullDate),
   MkRange(NullDate, parseISO(2)), MkRange(parseISO(1), parseISO(2))}
CrimeTypeLists == {<<>>, <<"HOMICIDE", "THEFT/OTHER">>}
ShiftLists == {<<>>, <<"DAY", "MIDNIGHT">>}

FilterSpecs ==
  [dateRange : DateRanges, crimeTypes : CrimeTypeLists, shifts : ShiftLists]

(***************************************************************************)
(* Idle values of the harness variables.                                   *)
(***************************************************************************)
DecIdle ==
  /\ decHeaders = <<>> /\ decRow = <<>> /\ decValues = <<>>
  /\ decObject = NullObject /\ decPc = "idle"
RankIdle ==
  /\ rankData = <<>> /\ rankResult = <<>> /\ rankChart = <<>> /\ rankPc = "idle"

AggIdle == aggData = <<>> /\ aggViews = <<>> /\ aggPc = "idle"
AreaIdle ==
  areaRaw = <<>> /\ areaFilters = EmptyFilterSpec /\ areaViews = <<>> /\ areaPc = "idle"
CenIdle == cenTables = <<>> /\ cenResult = <<>> /\ cenPc = "idle"
CorrIdle ==
  /\ corrMetric = "" /\ corrValue = <<>> /\ corrIncidents = 0
  /\ corrNeighborhoods = <<>> /\ corrOut = <<>> /\ corrPc = "idle"
FltIdle ==
  /\ selectedShifts = <<>> /\ selectedCrimeTypes = <<>>
  /\ startDate = <<>> /\ endDate = <<>>
  /\ mountFilters = EmptyFilterSpec /\ passedFilters = <<>> /\ fltPc = "idle"
HarnessIdle == DecIdle /\ RankIdle /\ AggIdle /\ AreaIdle /\ CenIdle /\ CorrIdle /\ FltIdle

(***************************************************************************)
(* CrimeDataProvider (main.jsx:32-298).                                    *)
(***************************************************************************)
ProviderInit ==
  /\ isLoading = TRUE
  /\ error = NoError
  /\ rawData = <<>>
  /\ filteredRawData = <<>>
  /\ heatMapData = <<>>
  /\ timeDistribution = <<>>
  /\ crimeTypes = <<>>
  /\ temporalTrends = <<>>
  /\ census = NullCensus
  /\ censusCorrelations = <<>>
  /\ showCensusOverlay = FALSE
  /\ selectedCensusMetric = "income"
  /\ filters = EmptyFilterSpec

Init ==
  /\ ProviderInit
  /\ loadPc = "fetch"
  /\ csvData = <<>>
  /\ HarnessIdle

\* a catch block that stores the error and leaves isLoading as it is
LoadFailedStillLoading(message) ==
  /\ error' = "Failed to load crime data: " \o message
  /\ loadPc' = "done"
  /\ csvData' = <<>>
  /\ UNCHANGED <<isLoading, rawData, filteredRawData, heatMapData, timeDistribution,
                 crimeTypes, temporalTrends, census, censusCorrelations,
                 showCensusOverlay, selectedCensusMetric, filters>>
  /\ UNCHANGED harnessVars

\* the catch block of loadData (main.jsx:193-200); the locals of loadData
\* end with it
LoadFailed(message) ==
  /\ isLoading' = FALSE
  /\ error' = "Failed to load crime data: " \o message
  /\ loadPc' = "done"
  /\ csvData' = <<>>
  /\ UNCHANGED <<rawData, filteredRawData, heatMapData, timeDistribution,
                 crimeTypes, temporalTrends, census, censusCorrelations,
                 showCensusOverlay, selectedCensusMetric, filters>>
  /\ UNCHANGED harnessVars

\* await fetch(...) resolves with response.ok
LoadFetchOk ==
  /\ loadPc = "fetch"
  /\ loadPc' = "text"
  /\ UNCHANGED <<providerVars, csvData, harnessVars>>

\* await fetch(...) rejects, or resolves with !response.ok
LoadFetchFail ==
  /\ loadPc = "fetch"
  /\ \E message \in FetchFailures : LoadFailed(message)

\* the rows of the text: split on line ends, blank rows filtered out
nonBlankRows(file) == SelectSeq(file, LAMBDA row : Trim(row) # <<>>)

\* the decoding without the test for an empty csvData
decodeErrorNoRowCheck(file) ==
  LET rows == nonBlankRows(file) IN
  IF rows = <<>> THEN "CSV file is empty"
  ELSE IF Len(rows) < 2 THEN "CSV file has insufficient data"
  ELSE LET headers == parseHeaders(rows[1]) IN
    IF ~includes(headers, "LATITUDE") \/ ~includes(headers, "LONGITUDE")
      THEN "CSV file is missing required columns"
    ELSE NoError

\* the message thrown while decoding the text (main.jsx:66-167), or NoError
decodeError(file) ==
  LET rows == nonBlankRows(file) IN
  IF rows = <<>> THEN "CSV file is empty"
  ELSE IF Len(rows) < 2 THEN "CSV file has insufficient data"
  ELSE LET headers == parseHeaders(rows[1]) IN
    IF ~includes(headers, "LATITUDE") \/ ~includes(headers, "LONGITUDE")
      THEN "CSV file is missing required columns"
    ELSE IF decodeRows(headers, Tail(rows)) = <<>>
      THEN "No valid data rows in CSV"
    ELSE NoError

\* the texts that decode, the messages thrown for the other ones, and the
\* csvData of the texts that decode
DecodableFiles == {file \in CsvFiles : decodeError(file) = NoError}
DecodeFailures == {decodeError(file) : file \in CsvFiles \ DecodableFiles}
DecodedCsv ==
  {decodeRows(parseHeaders(nonBlankRows(file)[1]), Tail(nonBlankRows(file))) :
     file \in DecodableFiles}

\* await response.text() resolves and the text decodes
LoadTextOk ==
  /\ loadPc = "text"
  /\ \E rows \in DecodedCsv : csvData' = rows
  /\ loadPc' = "census"
  /\ UNCHANGED <<providerVars, harnessVars>>

\* await response.text() resolves and decoding throws
LoadTextFail ==
  /\ loadPc = "text"
  /\ \E message \in DecodeFailures : LoadFailed(message)

\* await loadCensusData() rejects
LoadCensusFail ==
  /\ loadPc = "census"
  /\ \E message \in CensusFailures : LoadFailed(message)

\* processData (dataProcessing.js:143-158)
processData(records) ==
  LET cleanedData == cleanAll(records)
  IN  [ rawData |-> cleanedData,
        heatMapData |-> processHeatMapData(cleanedData),
        timeDistribution |-> processTimeDistribution(cleanedData),
        crimeTypes |-> processCrimeTypes(cleanedData),
        temporalTrends |-> processTemporalTrends(cleanedData) ]

\* await loadCensusData() resolves; processData; the success setData
\* (main.jsx:170-192)
LoadCensusOk ==
  /\ loadPc = "census"
  /\ LET processedData == processData(csvData) IN
       /\ isLoading' = FALSE
       /\ rawData' = processedData.rawData
       /\ heatMapData' = processedData.heatMapData
       /\ timeDistribution' = processedData.timeDistribution
       /\ crimeTypes' = processedData.crimeTypes
       /\ temporalTrends' = processedData.temporalTrends
       /\ filteredRawData' = processedData.rawData
       /\ census' = LoadedCensus
       /\ censusCorrelations' = correlateCrimeWithCensus(processedData.rawData, LoadedCensus)
  /\ loadPc' = "done"
  /\ csvData' = <<>>
  /\ UNCHANGED <<error, showCensusOverlay, selectedCensusMetric, filters>>
  /\ UNCHANGED harnessVars

\* filterData appending the new heat map points to the published ones
FilterDataAppending(F) ==
  LET filtered == filterIncidents(rawData, F) IN
  /\ filters' = F
  /\ filteredRawData' = filtered
  /\ heatMapData' = heatMapData \o processHeatMapData(filtered)
  /\ timeDistribution' = processTimeDistribution(filtered)
  /\ crimeTypes' = processCrimeTypes(filtered)
  /\ temporalTrends' = processTemporalTrends(filtered)
  /\ censusCorrelations' = correlateCrimeWithCensus(filtered, census)
  /\ UNCHANGED <<isLoading, error, rawData, census, showCensusOverlay,
                 selectedCensusMetric>>
  /\ UNCHANGED <<loaderVars, harnessVars>>

\* filterData storing the filtered collection as rawData as well
FilterDataOverwritingRaw(F) ==
  LET filtered == filterIncidents(rawData, F) IN
  /\ filters' = F
  /\ rawData' = filtered
  /\ filteredRawData' = filtered
  /\ heatMapData' = processHeatMapData(filtered)
  /\ timeDistribution' = processTimeDistribution(filtered)
  /\ crimeTypes' = processCrimeTypes(filtered)
  /\ temporalTrends' = processTemporalTrends(filtered)
  /\ censusCorrelations' = correlateCrimeWithCensus(filtered, census)
  /\ UNCHANGED <<isLoading, error, census, showCensusOverlay,
                 selectedCensusMetric>>
  /\ UNCHANGED <<loaderVars, harnessVars>>

\* filterData (main.jsx:207-262)
FilterData(F) ==
  LET filtered == filterIncidents(rawData, F) IN
  /\ filters' = F
  /\ filteredRawData' = filtered
  /\ heatMapData' = processHeatMapData(filtered)
  /\ timeDistribution' = processTimeDistribution(filtered)
  /\ crimeTypes' = processCrimeTypes(filtered)
  /\ temporalTrends' = processTemporalTrends(filtered)
  /\ censusCorrelations' = correlateCrimeWithCensus(filtered, census)
  /\ UNCHANGED <<isLoading, error, rawData, census, showCensusOverlay,
                 selectedCensusMetric>>
  /\ UNCHANGED <<loaderVars, harnessVars>>

\* a component calls filterData with some FilterSpec
ApplyFilter == \E F \in FilterSpecs : FilterData(F)

\* some filter axis of the stored FilterSpec is active
FilterActive(F) ==
  F.dateRange.kind = "range" \/ Len(F.crimeTypes) > 0 \/ Len(F.shifts) > 0

\* resetFilters (Filters.jsx:144-164): offered while a filter is active and,
\* once confirmed, passes the all-empty FilterSpec to filterData
ResetFilters ==
  /\ FilterActive(filters)
  /\ FilterData(EmptyFilterSpec)

\* toggleCensusOverlay (main.jsx:265-275)
ToggleCensusOverlay ==
  /\ showCensusOverlay' = ~showCensusOverlay
  /\ UNCHANGED <<isLoading, error, rawData, filteredRawData, heatMapData,
                 timeDistribution, crimeTypes, temporalTrends, census,
                 censusCorrelations, selectedCensusMetric, filters>>
  /\ UNCHANGED <<loaderVars, harnessVars>>

\* selectCensusMetric (main.jsx:278-284)
SelectCensusMetric ==
  /\ \E metric \in CensusMetrics : selectedCensusMetric' = metric
  /\ UNCHANGED <<isLoading, error, rawData, filteredRawData, heatMapData,
                 timeDistribution, crimeTypes, temporalTrends, census,
                 censusCorrelations, showCensusOverlay, filters>>
  /\ UNCHANGED <<loaderVars, harnessVars>>

Next ==
  \/ LoadFetchOk
  \/ LoadFetchFail
  \/ LoadTextOk
  \/ LoadTextFail
  \/ LoadCensusOk
  \/ LoadCensusFail
  \/ ApplyFilter
  \/ ResetFilters
  \/ ToggleCensusOverlay
  \/ SelectCensusMetric

Spec == Init /\ [][Next]_vars

(***************************************************************************)
(* Decoder harness: parseRow and the row mapping applied to every row over *)
(* a small alphabet, against headers of 1..MaxHeaderLen columns.           *)
(***************************************************************************)
DecodeAlphabet == {COMMA, QUOTE, BLANK, "a"}
ColumnNames == <<"A", "B", "C", "D", "E", "F">>

\* the rows that survive rows.filter(row => row.trim())
DecodeRows ==
  {row \in SeqsUpTo(DecodeAlphabet, MaxRowLen) : Trim(row) # <<>>}
DecodeHeaders == {SubSeq(ColumnNames, 1, n) : n \in 1..MaxHeaderLen}

LoaderIdle == loadPc = "idle" /\ csvData = <<>>

DecodeInit ==
  /\ ProviderInit /\ LoaderIdle /\ RankIdle /\ AggIdle /\ AreaIdle /\ CenIdle /\ CorrIdle /\ FltIdle
  /\ decPc = "input"
  /\ decRow \in DecodeRows
  /\ decHeaders \in DecodeHeaders
  /\ decValues = <<>>
  /\ decObject = NullObject

\* one iteration of rows.slice(1).map(...) (main.jsx:129-158)
DecodeRow ==
  /\ decPc = "input"
  /\ decValues' = parseRow(decRow)
  /\ decObject' = rowToObject(decHeaders, decRow)
  /\ decPc' = "decoded"
  /\ UNCHANGED <<decHeaders, decRow, providerVars, loaderVars, rankVars, aggVars, areaVars, cenVars, corrVars, fltVars>>

DecodeNext == DecodeRow

SpecDecode == DecodeInit /\ [][DecodeNext]_vars

(***************************************************************************)
(* Ranking harness: the two category rankers applied to filtered           *)
(* collections of up to MaxRankLen incidents.                              *)
(***************************************************************************)
OffenseNames ==
  <<"THEFT/OTHER", "THEFT F/AUTO", "MOTOR VEHICLE THEFT", "ROBBERY",
    "ASSAULT W/DANGEROUS WEAPON", "BURGLARY", "HOMICIDE", "SEX ABUSE",
    "ARSON", "UNKNOWN", "FRAUD", "VANDALISM", "TRESPASS", "KIDNAPPING">>

\* an incident as cleanRecord builds it from a row that has only these fields
incidentWith(offense, shift, reportDate) ==
  [ latitude |-> 38, longitude |-> 0 - 77, reportDate |-> reportDate,
    shift |-> shift, offense |-> offense, block |-> "",
    neighborhood |-> "", censusTract |-> "" ]

RECURSIVE RankPicks(_)
\* the index sequences of length n whose i-th element is i or (i \div 2) + 1
RankPicks(n) ==
  IF n = 0 THEN {<<>>}
  ELSE {Append(p, k) : p \in RankPicks(n - 1), k \in {n, (n \div 2) + 1}}

\* the collections whose i-th incident has the i-th offense name or an
\* earlier one, so that both repeated and more than ten categories occur
RankInputs ==
  UNION {
    { [i \in 1..n |-> incidentWith(OffenseNames[pick[i]], "DAY", MkDate(1, 1))] :
        pick \in RankPicks(n) }
    : n \in 0..MaxRankLen }

RankInit ==
  /\ ProviderInit /\ LoaderIdle /\ DecIdle /\ AggIdle /\ AreaIdle /\ CenIdle /\ CorrIdle /\ FltIdle
  /\ rankPc = "input"
  /\ rankData \in RankInputs
  /\ rankResult = <<>>
  /\ rankChart = <<>>

\* the category ranking of a filtered collection, by both rankers
RankCrimeTypes ==
  /\ rankPc = "input"
  /\ rankResult' = processCrimeTypes(rankData)
  /\ rankChart' = chartCrimeTypes(rankData)
  /\ rankPc' = "ranked"
  /\ UNCHANGED <<rankData, providerVars, loaderVars, decVars, aggVars, areaVars, cenVars, corrVars, fltVars>>

RankNext == RankCrimeTypes

SpecRank == RankInit /\ [][RankNext]_vars

(***************************************************************************)
(* Properties of the decoder.                                              *)
(***************************************************************************)
\* the positions of the commas of row that lie outside double quotes
UnquotedCommas(row) ==
  {i \in 1..Len(row) :
     /\ row[i] = COMMA
     /\ Cardinality({j \in 1..(i - 1) : row[j] = QUOTE}) % 2 = 0}

\* the k-th smallest element of a finite set of integers
NthSmallest(S, k) == CHOOSE x \in S : Cardinality({y \in S : y < x}) = k - 1

\* the text between the (k-1)-th and the k-th unquoted comma of row
Segment(row, k) ==
  LET cuts == UnquotedCommas(row)
      from == IF k = 1 THEN 1 ELSE NthSmallest(cuts, k - 1) + 1
      to == IF k = Cardinality(cuts) + 1 THEN Len(row) ELSE NthSmallest(cuts, k) - 1
  IN  SubSeq(row, from, to)

\* a segment without its quote characters and its surrounding blanks
FieldText(segment) == Join(Trim(SelectSeq(segment, LAMBDA c : c # QUOTE)))

\* C8: parseRow separates fields only at commas outside double quotes: the
\* number of decoded fields is the number of unquoted commas plus one, and
\* each field is its segment of the row (embedded commas kept) without the
\* quotes and without surrounding whitespace.
C8_ParseRowSplitsOnUnquotedCommas ==
  decPc = "decoded" =>
    /\ Len(decValues) = Cardinality(UnquotedCommas(decRow)) + 1
    /\ \A k \in 1..Len(decValues) : decValues[k] = FieldText(Segment(decRow, k))

\* a quoted field with an embedded comma has been decoded to one field
C8_Witness ==
  /\ decPc = "decoded"
  /\ decRow = <<QUOTE, "a", COMMA, "a", QUOTE>>
  /\ decValues = <<"a,a">>

\* C9: a data row is dropped exactly when it decodes to more fields than the
\* header has columns; otherwise it is retained with every header key
\* present, the decoded fields in column order and empty strings for the
\* columns the row does not reach.
C9_RowColumnCountPolicy ==
  decPc = "decoded" =>
    /\ decObject.isNull <=> Len(decValues) > Len(decHeaders)
    /\ ~decObject.isNull =>
         /\ DOMAIN decObject.obj = {decHeaders[i] : i \in 1..Len(decHeaders)}
         /\ \A i \in 1..Len(decHeaders) :
              decObject.obj[decHeaders[i]] =
                IF i <= Len(decValues) THEN decValues[i] ELSE ""

\* a row with fewer fields than the header has been retained and padded
C9_Witness ==
  /\ decPc = "decoded"
  /\ Len(decHeaders) = 3
  /\ decValues = <<"a", "a">>
  /\ ~decObject.isNull
  /\ decObject.obj["C"] = ""

(***************************************************************************)
(* Properties of the category ranking.                                     *)
(***************************************************************************)
RECURSIVE SumCounts(_)
SumCounts(ranking) ==
  IF ranking = <<>> THEN 0 ELSE Head(ranking).count + SumCounts(Tail(ranking))

DistinctOffenses(data) == {data[i].offense : i \in 1..Len(data)}

RankingWellFormed(ranking, data) ==
  /\ Len(ranking) <= 10
  /\ \A i, j \in 1..Len(ranking) : i # j => ranking[i].type # ranking[j].type
  /\ \A i \in 1..(Len(ranking) - 1) : ranking[i].count >= ranking[i + 1].count
  /\ SumCounts(ranking) <= Len(data)
  /\ Cardinality(DistinctOffenses(data)) <= 10 => SumCounts(ranking) = Len(data)

\* C10: the category ranking of processCrimeTypes and of useChartData has at
\* most 10 entries, no category twice, counts in non-increasing order, and a
\* sum of counts that is at most the number of filtered incidents and equal
\* to it when there are at most 10 distinct categories.
C10_RankingWellFormed ==
  rankPc = "ranked" =>
    /\ RankingWellFormed(rankResult, rankData)
    /\ RankingWellFormed(rankChart, rankData)

\* a collection with more than ten categories has been ranked and truncated
C10_Witness ==
  /\ rankPc = "ranked"
  /\ Cardinality(DistinctOffenses(rankData)) > 10
  /\ Len(rankResult) = 10
  /\ Len(rankChart) = 10
  /\ rankResult[1].count > rankResult[10].count
  /\ SumCounts(rankResult) < Len(rankData)

(***************************************************************************)
(* Properties of the filter engine and of the provider.                    *)
(***************************************************************************)
\* the date axis read on timestamps: a report date at or after / before a bound
AtOrAfter(d, bound) == d.kind = "date" /\ d.ms >= bound.ms
AtOrBefore(d, bound) == d.kind = "date" /\ d.ms <= bound.ms

\* the three axes of a FilterSpec, as the specification states them
AxesPass(incident, F) ==
  /\ (F.dateRange.kind = "range" /\ F.dateRange.start.kind # "null") =>
       AtOrAfter(incident.reportDate, F.dateRange.start)
  /\ (F.dateRange.kind = "range" /\ F.dateRange.end.kind # "null") =>
       AtOrBefore(incident.reportDate, F.dateRange.end)
  /\ (F.crimeTypes = <<>> \/
      incident.offense \in {F.crimeTypes[i] : i \in 1..Len(F.crimeTypes)})
  /\ (F.shifts = <<>> \/
      incident.shift \in {F.shifts[i] : i \in 1..Len(F.shifts)})

\* C1: filterData retains an incident if and only if the date axis, the
\* category axis and the shift axis all pass (AND across the axes, any-match
\* inside each list).
C1_FilterRetainsIffAxesPass ==
  [][\A F \in FilterSpecs :
       FilterData(F) =>
         filteredRawData' = SelectSeq(rawData, LAMBDA incident : AxesPass(incident, F))]_vars

\* a date range with exactly one bound set
OneBoundNull(F) ==
  /\ F.dateRange.kind = "range"
  /\ (F.dateRange.start.kind = "null") # (F.dateRange.end.kind = "null")

\* the same FilterSpec with the null bound replaced by a date before, or
\* after, every date of the data set
Widened(F) ==
  [F EXCEPT !.dateRange =
     MkRange(IF @.start.kind = "null" THEN MkDate(0, 0) ELSE @.start,
             IF @.end.kind = "null" THEN MkDate(1000, 0) ELSE @.end)]

\* C2: with one bound of the date range null, each filter pass (filterData
\* and filteredData of useChartData) treats the null bound as unbounded: it
\* retains what it retains when that bound lies beyond every incident.
C2_NullBoundIsUnbounded ==
  OneBoundNull(filters) =>
    /\ filterIncidents(rawData, filters) = filterIncidents(rawData, Widened(filters))
    /\ chartFilteredData(rawData, filters) = chartFilteredData(rawData, Widened(filters))

\* C3: applying the all-empty FilterSpec (by filterData or by resetFilters)
\* makes the filtered collection the whole rawData, in the original order.
C3_EmptyFilterKeepsAll ==
  [][(FilterData(EmptyFilterSpec) \/ ResetFilters) =>
       /\ filters' = EmptyFilterSpec
       /\ filteredRawData' = rawData
       /\ rawData' = rawData]_vars

\* the all-empty FilterSpec is in force on a loaded store of several incidents
C3_Witness ==
  /\ loadPc = "done"
  /\ Len(rawData) >= 2
  /\ filters = EmptyFilterSpec
  /\ filteredRawData = rawData
  /\ timeDistribution = processTimeDistribution(rawData)

PublishedViews ==
  [ filteredRawData |-> filteredRawData,
    heatMapData |-> heatMapData,
    timeDistribution |-> timeDistribution,
    crimeTypes |-> crimeTypes,
    temporalTrends |-> temporalTrends ]

\* the views a call filterData(F) publishes on the canonical store raw
ViewsAfterFilter(raw, F) ==
  LET filtered == filterIncidents(raw, F) IN
  [ filteredRawData |-> filtered,
    heatMapData |-> processHeatMapData(filtered),
    timeDistribution |-> processTimeDistribution(filtered),
    crimeTypes |-> processCrimeTypes(filtered),
    temporalTrends |-> processTemporalTrends(filtered) ]

\* C4: filterData is idempotent: in the state a call filterData(F) leaves, a
\* second call filterData(F), which filters the rawData of that state, would
\* publish the views that are already there.
C4_FilterDataIdempotent ==
  [][\A F \in FilterSpecs :
       FilterData(F) => ViewsAfterFilter(rawData', F) = PublishedViews']_vars

\* a FilterSpec that narrows a loaded store is in force
C4_Witness ==
  /\ loadPc = "done"
  /\ FilterActive(filters)
  /\ Len(filteredRawData) > 0
  /\ Len(filteredRawData) < Len(rawData)
  /\ PublishedViews = ViewsAfterFilter(rawData, filters)

\* C5: after the load, no step changes rawData or census; and a step that is
\* not a step of loadData and replaces the filters or a derived view leaves
\* isLoading, error, showCensusOverlay and selectedCensusMetric as they were.
C5_CanonicalStoreReadOnly ==
  [][/\ loadPc = "done" => (rawData' = rawData /\ census' = census)
     /\ (/\ loadPc' = loadPc
         /\ <<filters, filteredRawData, heatMapData, timeDistribution,
              crimeTypes, temporalTrends, censusCorrelations>>' #
            <<filters, filteredRawData, heatMapData, timeDistribution,
              crimeTypes, temporalTrends, censusCorrelations>>)
        => UNCHANGED <<isLoading, error, showCensusOverlay,
                       selectedCensusMetric, rawData, census>>]_vars

\* a narrowing filter, the overlay toggle and a metric choice have all acted
\* on a loaded store
C5_Witness ==
  /\ loadPc = "done"
  /\ census = LoadedCensus
  /\ Len(rawData) = 2
  /\ Len(filteredRawData) = 1
  /\ showCensusOverlay
  /\ selectedCensusMetric = "poverty"

\* the messages loadData can publish
LoadErrors ==
  {"Failed to load crime data: " \o m :
     m \in FetchFailures \cup CensusFailures \cup
           {"CSV file is empty", "CSV file has insufficient data",
            "CSV file is missing required columns", "No valid data rows in CSV"}}

ZeroShiftCounts == [i \in 1..3 |-> [shift |-> ShiftOrder[i], count |-> 0]]

\* C6 as stated: after a failed load every derived view, timeDistribution
\* included, is empty.
C6_FailedLoadLeavesAllViewsEmpty ==
  error # NoError =>
    /\ ~isLoading
    /\ rawData = <<>> /\ filteredRawData = <<>> /\ heatMapData = <<>>
    /\ timeDistribution = <<>> /\ crimeTypes = <<>> /\ temporalTrends = <<>>

\* C6 (amended): a load that fails for any reason ends with isLoading false
\* and a descriptive error, and publishes no incident: rawData,
\* filteredRawData, heatMapData, crimeTypes and temporalTrends stay empty and
\* timeDistribution is empty or the three shift entries with count 0.  A text
\* passes the decoding only with the required columns and a decoded row, and
\* a load that ends without an error has the census.
C6_FailedLoadPublishesNothing ==
  /\ error # NoError =>
       /\ loadPc = "done" /\ ~isLoading /\ error \in LoadErrors
       /\ rawData = <<>> /\ filteredRawData = <<>> /\ heatMapData = <<>>
       /\ crimeTypes = <<>> /\ temporalTrends = <<>>
       /\ timeDistribution \in {<<>>, ZeroShiftCounts}
       /\ census = NullCensus
  /\ loadPc = "done" => ~isLoading
  /\ (loadPc = "done" /\ error = NoError) => census = LoadedCensus
  /\ loadPc = "census" =>
       /\ csvData # <<>>
       /\ \A i \in 1..Len(csvData) : {"LATITUDE", "LONGITUDE"} \subseteq DOMAIN csvData[i]

\* a load has failed on a text without a valid row, and filterData was called
C6_Witness ==
  /\ loadPc = "done"
  /\ error = "Failed to load crime data: No valid data rows in CSV"
  /\ FilterActive(filters)
  /\ timeDistribution = ZeroShiftCounts

\* C7: every incident of the canonical rawData has a report date that is a
\* valid timestamp (cleanRecord rejects the rows whose REPORT_DAT is missing
\* or does not parse).
C7_RawDataDatesValid ==
  \A i \in 1..Len(rawData) : rawData[i].reportDate.kind = "date"

\* the category names in ascending alphabetical order
AlphabeticalNames ==
  <<"ARSON", "ASSAULT W/DANGEROUS WEAPON", "BURGLARY", "FRAUD", "HOMICIDE",
    "KIDNAPPING", "MOTOR VEHICLE THEFT", "ROBBERY", "SEX ABUSE", "THEFT F/AUTO",
    "THEFT/OTHER", "TRESPASS", "UNKNOWN", "VANDALISM">>

AlphabeticalRank(name) ==
  CHOOSE i \in 1..Len(AlphabeticalNames) : AlphabeticalNames[i] = name

TiesAlphabetical(ranking) ==
  \A i \in 1..(Len(ranking) - 1) :
    ranking[i].count = ranking[i + 1].count =>
      AlphabeticalRank(ranking[i].type) < AlphabeticalRank(ranking[i + 1].type)

\* C11: in the category ranking of processCrimeTypes and of useChartData,
\* categories with equal counts follow each other in ascending alphabetical
\* order of their names.
C11_TiesOrderedAlphabetically ==
  rankPc = "ranked" =>
    /\ TiesAlphabetical(rankResult)
    /\ TiesAlphabetical(rankChart)

(***************************************************************************)
(* CrimeTypeChart (CrimeTypeChart.jsx): the chart rows prepared from the   *)
(* published ranking.  A percentage is held in tenths of a percent, as the *)
(* digits of toFixed(1), or is "NaN".                                      *)
(***************************************************************************)
\* ((count / total) * 100).toFixed(1)
toFixed1(count, total) ==
  IF total = 0 THEN "NaN" ELSE (count * 2000 + total) \div (2 * total)

\* const data = crimeTypes.map(...).sort(...) with total = rawData.length
\* (CrimeTypeChart.jsx:60-73)
crimeTypeChartData(ranking, raw) ==
  LET total == Len(raw)
      rows == [i \in 1..Len(ranking) |->
                 [ type |-> ranking[i].type, count |-> ranking[i].count,
                   percentage |-> toFixed1(ranking[i].count, total) ]]
  IN  sortByCountDesc(rows, <<>>)

\* C12: each category's percentage in the chart is its count divided by the
\* number of filtered incidents, times 100, rounded to one decimal, after
\* any filterData call.
C12_PercentageOfFilteredTotal ==
  LET data == crimeTypeChartData(crimeTypes, rawData) IN
    \A i \in 1..Len(data) :
      data[i].percentage = toFixed1(data[i].count, Len(filteredRawData))

(***************************************************************************)
(* The memoised views of useChartData (useChartData.js:34-101), computed   *)
(* in the order of the statements of the memo.                             *)
(***************************************************************************)
\* the shift counter that counts every incident under the first shift
chartTimeDistributionFirstOnly(filteredData) ==
  [i \in 1..Len(ShiftOrder) |->
     [ shift |-> ShiftOrder[i],
       count |-> IF i = 1 THEN Len(filteredData) ELSE 0,
       total |-> Len(filteredData) ]]

\* timeDistribution of useChartData (useChartData.js:39-43)
chartTimeDistribution(filteredData) ==
  [i \in 1..Len(ShiftOrder) |->
     [ shift |-> ShiftOrder[i],
       count |-> Len(SelectSeq(filteredData, LAMBDA d : d.shift = ShiftOrder[i])),
       total |-> Len(filteredData) ]]

\* heatMapData of useChartData (useChartData.js:57-66)
chartHeatMapData(filteredData) ==
  [i \in 1..Len(filteredData) |->
     [ lat |-> filteredData[i].latitude, lng |-> filteredData[i].longitude,
       offense |-> filteredData[i].offense,
       reportDate |-> filteredData[i].reportDate,
       shift |-> filteredData[i].shift, block |-> filteredData[i].block,
       neighborhood |-> filteredData[i].neighborhood, weight |-> 1 ]]

\* format(incident.reportDate, 'yyyy-MM-dd') throws a RangeError on the
\* Invalid Date, and the reduce of dailyCounts has no try (useChartData.js:69-75)
dailyCountsThrows(filteredData) ==
  \E i \in 1..Len(filteredData) :
    Truthy(filteredData[i].reportDate) /\ ~isValid(filteredData[i].reportDate)

\* dailyCounts of useChartData (useChartData.js:69-75), when no format throws
chartDailyCounts(filteredData) ==
  LET dated == SelectSeq(filteredData, LAMBDA incident : Truthy(incident.reportDate))
  IN  tally([i \in 1..Len(dated) |-> dayKey(dated[i].reportDate)], <<>>)

\* eachDayOfInterval({start: startOfYear(year2024), end: endOfYear(year2024)})
eachDayOfYear == [d \in 1..DaysInYear |-> parseISO(d)]

\* temporalTrends of useChartData (useChartData.js:78-92)
chartTemporalTrends(filteredData) ==
  LET dailyCounts == chartDailyCounts(filteredData)
  IN  [i \in 1..Len(eachDayOfYear) |->
         [ date |-> eachDayOfYear[i],
           count |-> lookup(dailyCounts, dayKey(eachDayOfYear[i])) ]]

(***************************************************************************)
(* Aggregation harness: the reducers of dataProcessing.js and the memo of  *)
(* useChartData applied to filtered collections of up to MaxAggLen         *)
(* incidents.                                                              *)
(***************************************************************************)
\* incidents as cleanRecord admits them: the three shifts and a defaulted
\* one, days of the target year, of the year before and of the year after,
\* the Invalid Date, and defaulted coordinates
AggPool ==
  { incidentWith("THEFT/OTHER", "DAY", MkDate(1, 1)),
    incidentWith("HOMICIDE", "EVENING", MkDate(1, 2)),
    incidentWith("ROBBERY", "MIDNIGHT", MkDate(DaysInYear, 2)),
    incidentWith("THEFT/OTHER", "UNKNOWN", MkDate(0, 2)),
    incidentWith("BURGLARY", "DAY", MkDate(DaysInYear + 1, 0)),
    incidentWith("ARSON", "EVENING", InvalidDate),
    [incidentWith("THEFT F/AUTO", "MIDNIGHT", MkDate(2, 0))
       EXCEPT !.latitude = 0, !.longitude = 0] }

AggInputs == SeqsUpTo(AggPool, MaxAggLen)

AggInit ==
  /\ ProviderInit /\ LoaderIdle /\ DecIdle /\ RankIdle /\ AreaIdle /\ CenIdle /\ CorrIdle /\ FltIdle
  /\ aggPc = "input"
  /\ aggData \in AggInputs
  /\ aggViews = <<>>

\* the views of one filtered collection: the reducers that filterData calls
\* (main.jsx:239-251) and the statements of the useChartData memo, whose
\* later statements are not reached when dailyCounts throws
AggregateViews ==
  /\ aggPc = "input"
  /\ aggViews' =
       [ heatMapData |-> processHeatMapData(aggData),
         timeDistribution |-> processTimeDistribution(aggData),
         crimeTypes |-> processCrimeTypes(aggData),
         temporalTrends |-> processTemporalTrends(aggData),
         chartTimeDistribution |-> chartTimeDistribution(aggData),
         chartCrimeTypes |-> chartCrimeTypes(aggData),
         chartHeatMapData |-> chartHeatMapData(aggData),
         chartThrew |-> dailyCountsThrows(aggData),
         chartTemporalTrends |->
           IF dailyCountsThrows(aggData) THEN <<>> ELSE chartTemporalTrends(aggData) ]
  /\ aggPc' = "done"
  /\ UNCHANGED <<aggData, providerVars, loaderVars, decVars, rankVars, areaVars, cenVars, corrVars, fltVars>>

AggNext == AggregateViews

SpecAgg == AggInit /\ [][AggNext]_vars

(***************************************************************************)
(* Properties of the shift counter.                                        *)
(***************************************************************************)
CountShift(data, shift) == Cardinality({i \in 1..Len(data) : data[i].shift = shift})

ShiftCountsOf(view, data) ==
  /\ Len(view) = 3
  /\ <<view[1].shift, view[2].shift, view[3].shift>> = <<"DAY", "EVENING", "MIDNIGHT">>
  /\ \A i \in 1..3 : view[i].count = CountShift(data, view[i].shift)
  /\ view[1].count + view[2].count + view[3].count <= Len(data)

CountDay(data, d) ==
  Cardinality({i \in 1..Len(data) :
                 isValid(data[i].reportDate) /\ dayKey(data[i].reportDate) = d})

\* one entry per calendar day of the target year, each with the count of
\* the incidents of that day
DenseSeries(series, data) ==
  /\ Len(series) = DaysInYear
  /\ \A d \in 1..DaysInYear :
       /\ Cardinality({i \in 1..Len(series) : dayKey(series[i].date) = d}) = 1
       /\ \A i \in 1..Len(series) :
            dayKey(series[i].date) = d => series[i].count = CountDay(data, d)

\* C14: the temporalTrends published by a filterData call has exactly one
\* entry for every calendar day of the target year, with count 0 for the
\* days that have no filtered incident.
C14_PublishedTrendIsDense ==
  [][\A F \in FilterSpecs :
       FilterData(F) => DenseSeries(temporalTrends', filteredRawData')]_vars

RECURSIVE SumSeries(_)
SumSeries(series) ==
  IF series = <<>> THEN 0 ELSE Head(series).count + SumSeries(Tail(series))

\* the incidents of data whose reportDate falls within the target year
CountInYear(data) ==
  Cardinality({i \in 1..Len(data) :
                 /\ isValid(data[i].reportDate)
                 /\ dayKey(data[i].reportDate) \in 1..DaysInYear})

YearSeries(series, data) ==
  /\ DenseSeries(series, data)
  /\ \A i \in 1..(Len(series) - 1) : Less(series[i].date, series[i + 1].date)
  /\ SumSeries(series) = CountInYear(data)

\* C15: for every filtered collection the temporalTrends series of
\* useChartData is built without error and holds every calendar day of the
\* target year exactly once in ascending order, the sum of its counts being
\* the number of filtered incidents whose reportDate falls within that year.
C15_ChartTrendCoversYear ==
  aggPc = "done" =>
    /\ ~aggViews.chartThrew
    /\ YearSeries(aggViews.chartTemporalTrends, aggData)

(***************************************************************************)
(* NeighborhoodAnalysis (NeighborhoodAnalysis.jsx:77-203): the memo that   *)
(* filters the store, rolls the incidents up by area and derives the area  *)
(* insights.                                                               *)
(***************************************************************************)
\* Object.keys(CRIME_COLORS).filter(key => key !== 'default')
CrimeColorKeys ==
  <<"HOMICIDE", "ASSAULT W/DANGEROUS WEAPON", "ROBBERY", "BURGLARY",
    "MOTOR VEHICLE THEFT", "THEFT F/AUTO", "THEFT/OTHER">>

\* activeCrimeTypes (NeighborhoodAnalysis.jsx:84-86)
activeCrimeTypesOf(F) == IF Len(F.crimeTypes) > 0 THEN F.crimeTypes ELSE CrimeColorKeys

\* the callback of rawData.filter (NeighborhoodAnalysis.jsx:89-112)
areaRetains(incident, F) ==
  /\ F.dateRange.kind = "range" =>
       ~( \/ ~Truthy(incident.reportDate)
          \/ (Truthy(F.dateRange.start) /\ Less(incident.reportDate, F.dateRange.start))
          \/ (Truthy(F.dateRange.end) /\ Greater(incident.reportDate, F.dateRange.end)) )
  /\ ~(Len(F.crimeTypes) > 0 /\ ~includes(F.crimeTypes, incident.offense))
  /\ ~(Len(F.shifts) > 0 /\ ~includes(F.shifts, incident.shift))

\* the area labels of the incidents and their lower-case forms
AreaLabels ==
  <<"Cluster 1", "Unknown", "Cluster 2", "cluster 3", "", "CLUSTER 4", "Ward 5",
    "Cluster 6", "Cluster 7", " ", "Cluster 8", "Cluster 9", "Cluster 10">>
LowerCaseLabels ==
  <<"cluster 1", "unknown", "cluster 2", "cluster 3", "", "cluster 4", "ward 5",
    "cluster 6", "cluster 7", " ", "cluster 8", "cluster 9", "cluster 10">>
LabelAffixes == {"", " 1", " 2", " 3", " 4", " 6", " 7", " 8", " 9", " 10"}

\* String.prototype.toLowerCase, trim and includes on the labels
toLowerCase(s) ==
  LowerCaseLabels[CHOOSE i \in 1..Len(AreaLabels) : AreaLabels[i] = s]
trimText(s) == IF s = " " THEN "" ELSE s
includesText(s, t) == \E pre \in LabelAffixes, post \in LabelAffixes : s = pre \o t \o post

\* a step of the reduce that adds every incident of the area to its total
rollupStepCountingAll(acc, incident, active) ==
  LET neighborhood == orDefault(incident.neighborhood, "Unknown")
      known == \E i \in 1..Len(acc) : acc[i].neighborhood = neighborhood
      acc1 == IF known THEN acc
              ELSE Append(acc, [ neighborhood |-> neighborhood, total |-> 0,
                                 byType |-> [k \in 1..Len(active) |-> <<active[k], 0>>] ])
  IN  [i \in 1..Len(acc1) |->
         IF acc1[i].neighborhood = neighborhood
           THEN [ neighborhood |-> neighborhood,
                  total |-> acc1[i].total + 1,
                  byType |-> [k \in 1..Len(active) |->
                                IF active[k] = incident.offense
                                  THEN <<active[k], acc1[i].byType[k][2] + 1>>
                                  ELSE acc1[i].byType[k]] ]
           ELSE acc1[i]]

\* one step of the reduce of neighborhoodCrimes (NeighborhoodAnalysis.jsx:115-136)
rollupStep(acc, incident, active) ==
  LET neighborhood == orDefault(incident.neighborhood, "Unknown")
      known == \E i \in 1..Len(acc) : acc[i].neighborhood = neighborhood
      acc1 == IF known THEN acc
              ELSE Append(acc, [ neighborhood |-> neighborhood, total |-> 0,
                                 byType |-> [k \in 1..Len(active) |-> <<active[k], 0>>] ])
      counted == incident.offense # "" /\ includes(active, incident.offense)
  IN  [i \in 1..Len(acc1) |->
         IF acc1[i].neighborhood = neighborhood /\ counted
           THEN [ neighborhood |-> neighborhood,
                  total |-> acc1[i].total + 1,
                  byType |-> [k \in 1..Len(active) |->
                                IF active[k] = incident.offense
                                  THEN <<active[k], acc1[i].byType[k][2] + 1>>
                                  ELSE acc1[i].byType[k]] ]
           ELSE acc1[i]]

RECURSIVE neighborhoodCrimesOf(_, _, _)
neighborhoodCrimesOf(filteredData, acc, active) ==
  IF filteredData = <<>> THEN acc
  ELSE neighborhoodCrimesOf(Tail(filteredData),
                            rollupStep(acc, Head(filteredData), active), active)

RECURSIVE insertByTotalDesc(_, _)
\* position of e in a list sorted with (a, b) => b.total - a.total (stable)
insertByTotalDesc(sorted, e) ==
  IF sorted = <<>> THEN <<e>>
  ELSE IF Head(sorted).total >= e.total
    THEN <<Head(sorted)>> \o insertByTotalDesc(Tail(sorted), e)
    ELSE <<e>> \o sorted

RECURSIVE sortByTotalDesc(_, _)
sortByTotalDesc(entries, sorted) ==
  IF entries = <<>> THEN sorted
  ELSE sortByTotalDesc(Tail(entries), insertByTotalDesc(sorted, Head(entries)))

TopAreas == 5           \* .slice(0, 5)

\* the test of Object.values(neighborhoodCrimes).filter (NeighborhoodAnalysis.jsx:140-145)
isValidCluster(item) ==
  /\ item.neighborhood # "Unknown"
  /\ trimText(item.neighborhood) # ""
  /\ includesText(toLowerCase(item.neighborhood), "cluster")

\* the area rollup without the test of the area labels
neighborhoodDataUnlabelled(neighborhoodCrimes) ==
  sliceTo(sortByTotalDesc(neighborhoodCrimes, <<>>), TopAreas)

\* neighborhoodData (NeighborhoodAnalysis.jsx:139-147)
neighborhoodDataOf(neighborhoodCrimes) ==
  sliceTo(sortByTotalDesc(SelectSeq(neighborhoodCrimes, isValidCluster), <<>>), TopAreas)

RECURSIVE SumTotals(_)
\* neighborhoodData.reduce((sum, n) => sum + n.total, 0)
SumTotals(areas) ==
  IF areas = <<>> THEN 0 ELSE Head(areas).total + SumTotals(Tail(areas))

\* filteredData.length || 1
totalIncidentsOf(filteredData) == IF Len(filteredData) = 0 THEN 1 ELSE Len(filteredData)

\* the top-areas percentage with the number of areas as its denominator
topAreasPercentageOverAreas(neighborhoodData, filteredData) ==
  toFixed1(SumTotals(neighborhoodData), Len(neighborhoodData))

\* topAreasPercentage (NeighborhoodAnalysis.jsx:164-167)
topAreasPercentageOf(neighborhoodData, filteredData) ==
  toFixed1(SumTotals(neighborhoodData), totalIncidentsOf(filteredData))

PropertyCrimes == {"THEFT/OTHER", "THEFT F/AUTO", "BURGLARY", "MOTOR VEHICLE THEFT"}

\* propertyCrimePercentage (NeighborhoodAnalysis.jsx:170-174)
propertyCrimePercentageOf(filteredData) ==
  toFixed1(Len(SelectSeq(filteredData, LAMBDA incident : incident.offense \in PropertyCrimes)),
           totalIncidentsOf(filteredData))

\* Object.entries(area).filter(([key]) => activeCrimeTypes.includes(key))
\*   .sort((a, b) => b[1] - a[1])[0] || ['Unknown', 0]
topCrimeEntryOf(area) ==
  IF area.byType = <<>> THEN <<"Unknown", 0>>
  ELSE area.byType[CHOOSE k \in 1..Len(area.byType) :
                     /\ \A j \in 1..Len(area.byType) : area.byType[j][2] <= area.byType[k][2]
                     /\ \A j \in 1..(k - 1) : area.byType[j][2] < area.byType[k][2]]

NullAnalysis ==
  [ kind |-> "null", topCluster |-> "", totalCrimes |-> 0, topCrimeType |-> "",
    topCrimeCount |-> 0, topClusters |-> <<>>, topAreasPercentage |-> 0,
    propertyCrimePercentage |-> 0 ]

EmptyAreaViews ==
  [ neighborhoodData |-> <<>>, activeCrimeTypes |-> <<>>, analysisData |-> NullAnalysis ]

\* the memo of NeighborhoodAnalysis (NeighborhoodAnalysis.jsx:77-203)
areaMemo(raw, F) ==
  IF Len(raw) = 0 THEN EmptyAreaViews
  ELSE
    LET activeCrimeTypes == activeCrimeTypesOf(F)
        filteredData == SelectSeq(raw, LAMBDA incident : areaRetains(incident, F))
        neighborhoodData ==
          neighborhoodDataOf(neighborhoodCrimesOf(filteredData, <<>>, activeCrimeTypes))
    IN  IF Len(neighborhoodData) = 0 THEN EmptyAreaViews
        ELSE
          LET topCluster == neighborhoodData[1]
              topCrimeEntry == topCrimeEntryOf(topCluster)
          IN  [ neighborhoodData |-> neighborhoodData,
                activeCrimeTypes |-> activeCrimeTypes,
                analysisData |->
                  [ kind |-> "data",
                    topCluster |-> orDefault(topCluster.neighborhood, "Unknown"),
                    totalCrimes |-> topCluster.total,
                    topCrimeType |-> orDefault(topCrimeEntry[1], "Unknown"),
                    topCrimeCount |-> topCrimeEntry[2],
                    topClusters |-> [i \in 1..Len(neighborhoodData) |->
                                       neighborhoodData[i].neighborhood],
                    topAreasPercentage |->
                      topAreasPercentageOf(neighborhoodData, filteredData),
                    propertyCrimePercentage |->
                      propertyCrimePercentageOf(filteredData) ] ]

(***************************************************************************)
(* Area harness: the memo applied to stores of up to MaxAreaLen incidents  *)
(* and a few FilterSpecs.                                                  *)
(***************************************************************************)
AreaOffenses ==
  <<"THEFT/OTHER", "HOMICIDE", "ARSON", "BURGLARY", "BURGLARY", "SEX ABUSE",
    "ROBBERY">>

\* the stores whose i-th incident lies in the i-th area or in an earlier
\* one, so that areas with several incidents and more than five areas occur
AreaInputs ==
  UNION {
    { [i \in 1..n |->
         [incidentWith(AreaOffenses[((i - 1) % Len(AreaOffenses)) + 1], "DAY",
                       MkDate(1 + (i % 2), 1))
            EXCEPT !.neighborhood = AreaLabels[pick[i]]]] :
        pick \in RankPicks(n) }
    : n \in 0..MaxAreaLen }

AreaFilterSpecs ==
  { EmptyFilterSpec,
    [dateRange |-> NullRange, crimeTypes |-> <<"THEFT/OTHER", "ARSON">>, shifts |-> <<>>],
    [dateRange |-> MkRange(parseISO(2), NullDate), crimeTypes |-> <<>>, shifts |-> <<>>],
    [dateRange |-> NullRange, crimeTypes |-> <<>>, shifts |-> <<"MIDNIGHT">>] }

AreaInit ==
  /\ ProviderInit /\ LoaderIdle /\ DecIdle /\ RankIdle /\ AggIdle /\ CenIdle /\ CorrIdle /\ FltIdle
  /\ areaPc = "input"
  /\ areaRaw \in AreaInputs
  /\ areaFilters \in AreaFilterSpecs
  /\ areaViews = <<>>

AreaRollup ==
  /\ areaPc = "input"
  /\ areaViews' = areaMemo(areaRaw, areaFilters)
  /\ areaPc' = "done"
  /\ UNCHANGED <<areaRaw, areaFilters, providerVars, loaderVars, decVars, rankVars, aggVars, cenVars, corrVars, fltVars>>

AreaNext == AreaRollup

SpecArea == AreaInit /\ [][AreaNext]_vars

(***************************************************************************)
(* Properties of the area rollup.                                          *)
(***************************************************************************)
\* the labels that contain "cluster" in some letter case
ClusterLabels ==
  {"Cluster 1", "Cluster 2", "cluster 3", "CLUSTER 4", "Cluster 6", "Cluster 7",
   "Cluster 8", "Cluster 9", "Cluster 10"}

AreaFiltered == SelectSeq(areaRaw, LAMBDA incident : areaRetains(incident, areaFilters))

\* the number of filtered incidents of an area that fall in the active set
AreaTotal(label) ==
  Cardinality({i \in 1..Len(AreaFiltered) :
                 /\ AreaFiltered[i].neighborhood = label
                 /\ includes(activeCrimeTypesOf(areaFilters), AreaFiltered[i].offense)})

AreasPresent == {AreaFiltered[i].neighborhood : i \in 1..Len(AreaFiltered)}

\* C16: the area rollup holds no area whose label is empty, is "Unknown" or
\* lacks "cluster" (in any letter case); it has at most 5 entries, in
\* non-increasing order of total; and an area with a cluster label is left
\* out only when five areas are kept, none of them with a smaller total.
C16_AreaRollupTopFive ==
  areaPc = "done" =>
    LET kept == areaViews.neighborhoodData
        keptLabels == {kept[i].neighborhood : i \in 1..Len(kept)}
    IN  /\ keptLabels \subseteq ClusterLabels \cap AreasPresent
        /\ Len(kept) <= 5
        /\ Cardinality(keptLabels) = Len(kept)
        /\ \A i \in 1..(Len(kept) - 1) : kept[i].total >= kept[i + 1].total
        /\ \A label \in (ClusterLabels \cap AreasPresent) \ keptLabels :
             /\ Len(kept) = 5
             /\ \A i \in 1..Len(kept) : AreaTotal(label) <= kept[i].total

\* six areas with a cluster label and one without were rolled up: five are
\* kept, in decreasing totals, and the area without the label has more
\* incidents than the last of them
C16_Witness ==
  /\ areaPc = "done"
  /\ Cardinality(ClusterLabels \cap AreasPresent) > 5
  /\ Len(areaViews.neighborhoodData) = 5
  /\ areaViews.neighborhoodData[1].total > areaViews.neighborhoodData[5].total
  /\ \E label \in AreasPresent \ ClusterLabels :
       AreaTotal(label) > areaViews.neighborhoodData[5].total

censusFiles ==
  <<"income", "education", "race", "poverty", "value", "mobility",
    "transportation", "tenure">>

dcGeoid == "16000US1150000"
OtherGeoid == "16000US2404000"

\* the columns of the row of a place in each table (estimates and one
\* margin-of-error column)
PlaceColumns(name, geoid) ==
  CASE name = "income" ->
         [geoid |-> geoid, B19013001 |-> 90, B19013001Error |-> 3]
    [] name = "education" ->
         [geoid |-> geoid, B15002001 |-> 10, B15002015 |-> 1, B15002016 |-> 1,
          B15002017 |-> 1, B15002018 |-> 0, B15002032 |-> 1, B15002033 |-> 1,
          B15002034 |-> 0, B15002035 |-> 1]
    [] name = "race" ->
         [geoid |-> geoid, B03002001 |-> 10, B03002003 |-> 4, B03002004 |-> 4,
          B03002006 |-> 1, B03002012 |-> 1]
    [] name = "poverty" ->
         [geoid |-> geoid, B17001001 |-> 10, B17001002 |-> 2]
    [] name = "value" ->
         [geoid |-> geoid, B25075001 |-> 10, B25075025 |-> 1, B25075026 |-> 1,
          B25075027 |-> 0]
    [] OTHER -> [geoid |-> geoid, total |-> 10]

HttpError == [kind |-> "http", rows |-> <<>>]
BlankText == [kind |-> "blank", rows |-> <<>>]
TextOf(rows) == [kind |-> "text", rows |-> rows]

CompleteTable(name) ==
  TextOf(<<PlaceColumns(name, OtherGeoid), PlaceColumns(name, dcGeoid)>>)
\* the row of a place whose estimates are all 0
ZeroColumns(name, geoid) ==
  [c \in DOMAIN PlaceColumns(name, geoid) |-> IF c = "geoid" THEN geoid ELSE 0]

\* the other tables: a failed response, a text without lines, a header only,
\* a table without the target place, and one whose target row holds zeros
FaultyTables(name) ==
  { HttpError, BlankText, TextOf(<<>>), TextOf(<<PlaceColumns(name, OtherGeoid)>>),
    TextOf(<<ZeroColumns(name, dcGeoid)>>) }

\* header.includes('Error')
ErrorColumns == {"B19013001Error"}

\* parseCSV (censusDataProcessing:116-138) on a text with a header line: the
\* data rows as objects, the margin-of-error columns left out
parseCSV(text) ==
  [i \in 1..Len(text.rows) |->
     [c \in (DOMAIN text.rows[i]) \ ErrorColumns |-> text.rows[i][c]]]

\* a fetch whose promise rejects: response.ok is false (line 90), or rows[0]
\* is undefined in parseCSV so that parseCSVRow reads row.length of undefined
fileRejects(text) == text.kind \in {"http", "blank"}

EmptyObject == [c \in {} |-> 0]
\* row[column] || 0
numberAt(row, column) == IF column \in DOMAIN row THEN row[column] ELSE 0

\* extractDataForDC (censusDataProcessing:189-198)
extractDataForDC(dataset, geoid) ==
  IF \E i \in 1..Len(dataset) : dataset[i].geoid = geoid
    THEN dataset[CHOOSE i \in 1..Len(dataset) :
                   /\ dataset[i].geoid = geoid
                   /\ \A j \in 1..(i - 1) : dataset[j].geoid # geoid]
    ELSE EmptyObject

Fraction(n, d) == [num |-> n, den |-> d]

RECURSIVE sumFields(_, _)
\* fields.reduce((total, field) => total + (row[field] || 0), 0)
sumFields(row, fields) ==
  IF fields = <<>> THEN 0
  ELSE numberAt(row, Head(fields)) + sumFields(row, Tail(fields))

\* total > 0 ? (part / total) * 100 : 0
percentOf(part, total) == IF total > 0 THEN Fraction(part * 100, total) ELSE Fraction(0, 1)

\* calculateDerivedMetrics (censusDataProcessing:201-272)
calculateDerivedMetrics(rawCensus, geoid) ==
  LET education == extractDataForDC(rawCensus.education, geoid)
      poverty == extractDataForDC(rawCensus.poverty, geoid)
      housing == extractDataForDC(rawCensus.value, geoid)
      race == extractDataForDC(rawCensus.race, geoid)
      totalRacePopulation == numberAt(race, "B03002001")
      white == numberAt(race, "B03002003")
      black == numberAt(race, "B03002004")
      asian == numberAt(race, "B03002006")
      hispanic == numberAt(race, "B03002012")
      squares == white * white + black * black + asian * asian + hispanic * hispanic
  IN  [ higherEducationPercentage |->
          percentOf(sumFields(education,
                      <<"B15002015", "B15002016", "B15002017", "B15002018",
                        "B15002032", "B15002033", "B15002034", "B15002035">>),
                    numberAt(education, "B15002001")),
        povertyPercentage |->
          percentOf(numberAt(poverty, "B17001002"), numberAt(poverty, "B17001001")),
        highValueHousingPercentage |->
          percentOf(sumFields(housing, <<"B25075025", "B25075026", "B25075027">>),
                    numberAt(housing, "B25075001")),
        diversityIndex |->
          IF totalRacePopulation > 0
            THEN Fraction(totalRacePopulation * totalRacePopulation - squares,
                          totalRacePopulation * totalRacePopulation)
            ELSE Fraction(1, 1),
        racialComposition |->
          [ white |-> percentOf(white, totalRacePopulation),
            black |-> percentOf(black, totalRacePopulation),
            asian |-> percentOf(asian, totalRacePopulation),
            hispanic |-> percentOf(hispanic, totalRacePopulation),
            other |-> IF totalRacePopulation > 0
                        THEN Fraction((totalRacePopulation - white - black - asian - hispanic) * 100,
                                      totalRacePopulation)
                        ELSE Fraction(100, 1) ] ]

\* processCensusData (censusDataProcessing:166-186)
processCensusData(rawCensus) ==
  [ kind |-> "data",
    income |-> extractDataForDC(rawCensus.income, dcGeoid),
    education |-> extractDataForDC(rawCensus.education, dcGeoid),
    race |-> extractDataForDC(rawCensus.race, dcGeoid),
    poverty |-> extractDataForDC(rawCensus.poverty, dcGeoid),
    housing |-> extractDataForDC(rawCensus.value, dcGeoid),
    mobility |-> extractDataForDC(rawCensus.mobility, dcGeoid),
    transportation |-> extractDataForDC(rawCensus.transportation, dcGeoid),
    tenure |-> extractDataForDC(rawCensus.tenure, dcGeoid),
    derivedMetrics |-> calculateDerivedMetrics(rawCensus, dcGeoid) ]

CensusLoadError(name) == [kind |-> "error", file |-> name]

(***************************************************************************)
(* Census harness: loadCensusData on eight fetched tables of which at most *)
(* MaxCensusFaults are not the complete table.                             *)
(***************************************************************************)
RECURSIVE TableChoices(_, _)
\* the tables of the files i.. of censusFiles with at most k faulty ones
TableChoices(i, k) ==
  IF i > Len(censusFiles) THEN {<<>>}
  ELSE {<<CompleteTable(censusFiles[i])>> \o rest : rest \in TableChoices(i + 1, k)}
       \cup (IF k = 0 THEN {}
             ELSE {<<f>> \o rest : f \in FaultyTables(censusFiles[i]),
                                   rest \in TableChoices(i + 1, k - 1)})

CensusInputs == TableChoices(1, MaxCensusFaults)

\* results.reduce((acc, {name, data}) => { acc[name] = data }, {})
censusDataOf(tables) ==
  [name \in {censusFiles[i] : i \in 1..Len(censusFiles)} |->
     parseCSV(tables[CHOOSE i \in 1..Len(censusFiles) : censusFiles[i] = name])]

CenInit ==
  /\ ProviderInit /\ LoaderIdle /\ DecIdle /\ RankIdle /\ AggIdle /\ AreaIdle /\ CorrIdle /\ FltIdle
  /\ cenPc = "input"
  /\ cenTables \in CensusInputs
  /\ cenResult = <<>>

\* loadCensusData (censusDataProcessing:70-113): Promise.all rejects with the
\* error of a file whose promise rejects, and the catch rethrows it
LoadCensusData ==
  /\ cenPc = "input"
  /\ IF \E i \in 1..Len(cenTables) : fileRejects(cenTables[i])
       THEN \E i \in 1..Len(cenTables) :
              /\ fileRejects(cenTables[i])
              /\ cenResult' = CensusLoadError(censusFiles[i])
       ELSE cenResult' = processCensusData(censusDataOf(cenTables))
  /\ cenPc' = "done"
  /\ UNCHANGED <<cenTables, providerVars, loaderVars, decVars, rankVars, aggVars, areaVars, corrVars, fltVars>>

CenNext == LoadCensusData

SpecCensus == CenInit /\ [][CenNext]_vars

(***************************************************************************)
(* Properties of the reference data loading.                               *)
(***************************************************************************)
LacksTargetRegion(text) ==
  text.kind = "text" /\ \A i \in 1..Len(text.rows) : text.rows[i].geoid # dcGeoid

\* C18: if a reference table fails to load, or the target region (geoid
\* 16000US1150000) is absent from a reference table, loadCensusData fails
\* with a load error and produces no demographics.
C18_CensusAllOrNothing ==
  cenPc = "done" =>
    ( (\E i \in 1..Len(cenTables) :
         fileRejects(cenTables[i]) \/ LacksTargetRegion(cenTables[i]))
      => cenResult.kind = "error" )

(***************************************************************************)
(* CorrelationAnnotator: getCorrelationText                                *)
(* (NeighborhoodAnalysis.jsx:251-310).  A metric value is null or a        *)
(* number; the median is held doubled, so that it stays an integer.        *)
(***************************************************************************)
NullValue == [kind |-> "null", n |-> 0]
NumberValue(n) == [kind |-> "number", n |-> n]

RECURSIVE insertByTotalAsc(_, _)
\* position of e in a list sorted with (a, b) => a.total - b.total (stable)
insertByTotalAsc(sorted, e) ==
  IF sorted = <<>> THEN <<e>>
  ELSE IF Head(sorted).total <= e.total
    THEN <<Head(sorted)>> \o insertByTotalAsc(Tail(sorted), e)
    ELSE <<e>> \o sorted

RECURSIVE sortByTotalAsc(_, _)
sortByTotalAsc(entries, sorted) ==
  IF entries = <<>> THEN sorted
  ELSE sortByTotalAsc(Tail(entries), insertByTotalAsc(sorted, Head(entries)))

\* the median that takes the upper middle total of an even number of areas
medianUpperMiddle2(neighborhoods) ==
  IF Len(neighborhoods) = 0 THEN 0
  ELSE LET sortedIncidents == sortByTotalAsc(neighborhoods, <<>>)
           midIndex == Len(sortedIncidents) \div 2
       IN  2 * sortedIncidents[midIndex + 1].total

\* twice medianIncidents (NeighborhoodAnalysis.jsx:255-262)
medianIncidents2(neighborhoods) ==
  IF Len(neighborhoods) = 0 THEN 0
  ELSE LET sortedIncidents == sortByTotalAsc(neighborhoods, <<>>)
           midIndex == Len(sortedIncidents) \div 2
       IN  IF Len(sortedIncidents) % 2 # 0
             THEN 2 * sortedIncidents[midIndex + 1].total
             ELSE sortedIncidents[midIndex].total + sortedIncidents[midIndex + 1].total

\* incidents > medianIncidents * 1.2 and incidents < medianIncidents * 0.8
isHighCrimeOf(incidents, median2) == incidents * 20 > median2 * 12
isLowCrimeOf(incidents, median2) == incidents * 20 < median2 * 8

\* the income branch without the anomaly test
incomeTextNoAnomaly(n, isHighCrime, isLowCrime) ==
  IF n > 120000 THEN "Lower crime rate (expected)"
  ELSE IF n < 90000 THEN "Higher crime rate (expected)" ELSE "Moderate correlation"

\* the branch metric === 'income' (NeighborhoodAnalysis.jsx:271-280)
incomeText(n, isHighCrime, isLowCrime) ==
  LET expectedPattern == IF n > 120000 THEN "low" ELSE IF n < 90000 THEN "high" ELSE "moderate"
      isAnomaly == (expectedPattern = "low" /\ isHighCrime) \/
                   (expectedPattern = "high" /\ isLowCrime)
  IN  IF isAnomaly
        THEN IF expectedPattern = "low" THEN "Anomaly: High crime despite high income"
                                        ELSE "Anomaly: Low crime despite low income"
        ELSE IF n > 120000 THEN "Lower crime rate (expected)"
             ELSE IF n < 90000 THEN "Higher crime rate (expected)" ELSE "Moderate correlation"

\* the branch metric === 'education' (NeighborhoodAnalysis.jsx:281-289)
educationText(n, isHighCrime, isLowCrime) ==
  LET expectedPattern == IF n > 80 THEN "low" ELSE IF n < 65 THEN "high" ELSE "moderate"
      isAnomaly == (expectedPattern = "low" /\ isHighCrime) \/
                   (expectedPattern = "high" /\ isLowCrime)
  IN  IF isAnomaly
        THEN IF expectedPattern = "low" THEN "Anomaly: High crime despite high education"
                                        ELSE "Anomaly: Low crime despite low education"
        ELSE IF n > 80 THEN "Lower violent crime (expected)"
             ELSE IF n < 65 THEN "Higher crime rate (expected)" ELSE "Moderate correlation"

\* the branch metric === 'poverty' (NeighborhoodAnalysis.jsx:290-298); the
\* value is held in tenths of a percent
povertyText(n, isHighCrime, isLowCrime) ==
  LET expectedPattern == IF n > 150 THEN "high" ELSE IF n < 70 THEN "low" ELSE "moderate"
      isAnomaly == (expectedPattern = "high" /\ isLowCrime) \/
                   (expectedPattern = "low" /\ isHighCrime)
  IN  IF isAnomaly
        THEN IF expectedPattern = "high" THEN "Anomaly: Low crime despite high poverty"
                                         ELSE "Anomaly: High crime despite low poverty"
        ELSE IF n > 150 THEN "Higher crime rate (expected)"
             ELSE IF n < 70 THEN "Lower crime rate (expected)" ELSE "Moderate correlation"

\* the branch metric === 'housing' (NeighborhoodAnalysis.jsx:299-308)
housingText(n, isHighCrime, isLowCrime) ==
  LET expectedPattern == IF n > 750000 THEN "low" ELSE "high"
      isAnomaly == (expectedPattern = "low" /\ isHighCrime) \/
                   (expectedPattern = "high" /\ isLowCrime)
  IN  IF isAnomaly
        THEN IF expectedPattern = "low" THEN "Anomaly: High crime despite high housing values"
                                        ELSE "Anomaly: Low crime despite low housing values"
        ELSE IF n > 750000 THEN "Different pattern (expected)"
             ELSE "Higher violent crime (expected)"

NoCorrelation ==
  [ text |-> "No data", medianIncidents2 |-> 0, isHighCrime |-> FALSE, isLowCrime |-> FALSE ]

\* getCorrelationText (NeighborhoodAnalysis.jsx:251-310), with the locals it
\* computes on the way
getCorrelationText(metric, value, incidents, neighborhoods) ==
  IF value.kind = "null" THEN NoCorrelation
  ELSE
    LET median2 == medianIncidents2(neighborhoods)
        isHighCrime == isHighCrimeOf(incidents, median2)
        isLowCrime == isLowCrimeOf(incidents, median2)
    IN  [ medianIncidents2 |-> median2,
          isHighCrime |-> isHighCrime,
          isLowCrime |-> isLowCrime,
          text |->
            CASE metric = "income" -> incomeText(value.n, isHighCrime, isLowCrime)
              [] metric = "education" -> educationText(value.n, isHighCrime, isLowCrime)
              [] metric = "poverty" -> povertyText(value.n, isHighCrime, isLowCrime)
              [] metric = "housing" -> housingText(value.n, isHighCrime, isLowCrime)
              [] OTHER -> "Limited correlation" ]

\* the branch metric === 'poverty' of getCorrelationIndicatorColor
\* (NeighborhoodAnalysis.jsx:333-342)
povertyColor(n, isHighCrime, isLowCrime) ==
  LET expectedPattern == IF n > 150 THEN "high" ELSE IF n < 70 THEN "low" ELSE "moderate"
      isAnomaly == (expectedPattern = "high" /\ isLowCrime) \/
                   (expectedPattern = "low" /\ isHighCrime)
  IN  IF isAnomaly
        THEN IF expectedPattern = "high" THEN "#9333ea" ELSE "#d97706"
        ELSE IF n > 150 THEN "#ef4444" ELSE IF n < 70 THEN "#10b981" ELSE "#f59e0b"

\* the thresholds of income, education and housing
\* (NeighborhoodAnalysis.jsx:344-348)
thresholds ==
  [ income |-> [high |-> 120000, low |-> 90000],
    education |-> [high |-> 80, low |-> 65],
    housing |-> [high |-> 750000, low |-> 600000] ]

\* the branch of income, education and housing
\* (NeighborhoodAnalysis.jsx:343-359)
thresholdColor(metric, n, isHighCrime, isLowCrime) ==
  LET expectedPattern == IF n > thresholds[metric].high THEN "low"
                         ELSE IF n < thresholds[metric].low THEN "high" ELSE "moderate"
      isAnomaly == (expectedPattern = "low" /\ isHighCrime) \/
                   (expectedPattern = "high" /\ isLowCrime)
  IN  IF isAnomaly
        THEN IF expectedPattern = "low" THEN "#d97706" ELSE "#9333ea"
        ELSE IF n > thresholds[metric].high THEN "#10b981"
             ELSE IF n < thresholds[metric].low THEN "#ef4444" ELSE "#f59e0b"

\* getCorrelationIndicatorColor (NeighborhoodAnalysis.jsx:313-362)
getCorrelationIndicatorColor(metric, value, incidents, neighborhoods) ==
  IF value.kind = "null" THEN "#9ca3af"
  ELSE
    LET median2 == medianIncidents2(neighborhoods)
        isHighCrime == isHighCrimeOf(incidents, median2)
        isLowCrime == isLowCrimeOf(incidents, median2)
    IN  CASE metric = "poverty" -> povertyColor(value.n, isHighCrime, isLowCrime)
          [] metric \in {"income", "education", "housing"} ->
               thresholdColor(metric, value.n, isHighCrime, isLowCrime)
          [] OTHER -> "#9ca3af"

(***************************************************************************)
(* Correlation harness: getCorrelationText on top-5 sets of 1..TopAreas    *)
(* areas with totals up to MaxAreaTotal, as neighborhoodData holds them    *)
(* (in non-increasing order of total).                                     *)
(***************************************************************************)
RECURSIVE TotalsFrom(_, _)
\* the non-increasing sequences of n totals, none above top
TotalsFrom(n, top) ==
  IF n = 0 THEN {<<>>}
  ELSE UNION {{<<t>> \o rest : rest \in TotalsFrom(n - 1, t)} : t \in 0..top}

CorrTopSets ==
  UNION {
    { [i \in 1..n |-> [neighborhood |-> AreaLabels[i], total |-> totals[i]]] :
        totals \in TotalsFrom(n, MaxAreaTotal) }
    : n \in 1..TopAreas }

\* the metrics of censusOptions and values on each side of their thresholds
CorrMetricValues ==
  ({"income"} \X {NullValue, NumberValue(80000), NumberValue(90000), NumberValue(105000),
                  NumberValue(120000), NumberValue(130000)})
  \cup ({"education"} \X {NumberValue(60), NumberValue(70), NumberValue(85)})
  \cup ({"poverty"} \X {NumberValue(52), NumberValue(100), NumberValue(175)})
  \cup ({"housing"} \X {NumberValue(500000), NumberValue(700000), NumberValue(800000)})
  \cup ({"diversity"} \X {NumberValue(62)})

CorrInit ==
  /\ ProviderInit /\ LoaderIdle /\ DecIdle /\ RankIdle /\ AggIdle /\ AreaIdle /\ CenIdle /\ FltIdle
  /\ corrPc = "input"
  /\ \E mv \in CorrMetricValues : corrMetric = mv[1] /\ corrValue = mv[2]
  /\ corrIncidents \in 0..(MaxAreaTotal + 2)
  /\ corrNeighborhoods \in CorrTopSets
  /\ corrOut = <<>>

CorrelationText ==
  /\ corrPc = "input"
  /\ corrOut' =
       getCorrelationText(corrMetric, corrValue, corrIncidents, corrNeighborhoods)
       @@ [ color |-> getCorrelationIndicatorColor(corrMetric, corrValue, corrIncidents,
                                                  corrNeighborhoods) ]
  /\ corrPc' = "done"
  /\ UNCHANGED <<corrMetric, corrValue, corrIncidents, corrNeighborhoods, providerVars,
                 loaderVars, decVars, rankVars, aggVars, areaVars, cenVars, fltVars>>

CorrNext == CorrelationText

SpecCorr == CorrInit /\ [][CorrNext]_vars

(***************************************************************************)
(* Properties of the correlation annotator.                                *)
(***************************************************************************)
\* the k-th smallest of the totals of a set of areas
KthSmallestTotal(areas, k) ==
  CHOOSE v \in {areas[i].total : i \in 1..Len(areas)} :
    /\ Cardinality({i \in 1..Len(areas) : areas[i].total < v}) < k
    /\ Cardinality({i \in 1..Len(areas) : areas[i].total <= v}) >= k

\* twice the median: the middle total, or the sum of the two middle totals
DoubleMedian(areas) ==
  IF Len(areas) % 2 = 1
    THEN 2 * KthSmallestTotal(areas, (Len(areas) + 1) \div 2)
    ELSE KthSmallestTotal(areas, Len(areas) \div 2)
         + KthSmallestTotal(areas, Len(areas) \div 2 + 1)

\* C19: the annotator takes the median of the totals of the top-5 set (the
\* middle total, or the mean of the two middle totals), finds the count high
\* iff count > 1.2 x median and low iff count < 0.8 x median, never both, and
\* finds the only area of a one-area set neither high nor low.
C19_MedianClassification ==
  (corrPc = "done" /\ corrValue.kind = "number") =>
    /\ corrOut.medianIncidents2 = DoubleMedian(corrNeighborhoods)
    /\ corrOut.isHighCrime <=> (10 * corrIncidents > 6 * DoubleMedian(corrNeighborhoods))
    /\ corrOut.isLowCrime <=> (10 * corrIncidents < 4 * DoubleMedian(corrNeighborhoods))
    /\ ~(corrOut.isHighCrime /\ corrOut.isLowCrime)
    /\ (Len(corrNeighborhoods) = 1 /\ corrIncidents = corrNeighborhoods[1].total) =>
         (~corrOut.isHighCrime /\ ~corrOut.isLowCrime)

\* a set of four areas with median 4.5 has been annotated for a count of 6,
\* which is above 1.2 x 4.5 = 5.4
C19_Witness ==
  /\ corrPc = "done"
  /\ corrValue.kind = "number"
  /\ Len(corrNeighborhoods) = 4
  /\ corrOut.medianIncidents2 = 9
  /\ corrIncidents = 6
  /\ corrOut.isHighCrime

\* C20: for the income metric (high above 120,000, low below 90,000) the
\* text follows the expectation table: high income with high crime is the
\* high-crime anomaly, high income with low crime is 'Lower crime rate
\* (expected)', low income with low crime is the low-crime anomaly, low
\* income with high crime is the expected-positive label, an income between
\* the thresholds is the moderate label, and a null value is 'No data'.
C20_IncomeExpectationTable ==
  (corrPc = "done" /\ corrMetric = "income") =>
    LET high == 10 * corrIncidents > 6 * DoubleMedian(corrNeighborhoods)
        low == 10 * corrIncidents < 4 * DoubleMedian(corrNeighborhoods)
        n == corrValue.n
    IN  IF corrValue.kind = "null" THEN corrOut.text = "No data"
        ELSE /\ (n > 120000 /\ high) => corrOut.text = "Anomaly: High crime despite high income"
             /\ (n > 120000 /\ low) => corrOut.text = "Lower crime rate (expected)"
             /\ (n < 90000 /\ low) => corrOut.text = "Anomaly: Low crime despite low income"
             /\ (n < 90000 /\ high) => corrOut.text = "Higher crime rate (expected)"
             /\ (n >= 90000 /\ n <= 120000) => corrOut.text = "Moderate correlation"

\* a high income met a high count and was labelled an anomaly
C20_Witness ==
  /\ corrPc = "done"
  /\ corrMetric = "income"
  /\ corrValue = NumberValue(130000)
  /\ corrOut.isHighCrime
  /\ corrOut.text = "Anomaly: High crime despite high income"

(***************************************************************************)
(* The active category set of the area rollup.                             *)
(***************************************************************************)
\* the number of filtered incidents of an area, whatever their offense
AreaIncidents(label) ==
  Cardinality({i \in 1..Len(AreaFiltered) : AreaFiltered[i].neighborhood = label})

\* C21: with an empty category set in the FilterSpec every filtered incident
\* of a kept area, whatever its offense (SEX ABUSE, ARSON and UNKNOWN
\* included), is counted in the total of that area; with a non-empty
\* category set the active set is exactly that set.
C21_ActiveSetIsFullCategorySet ==
  (areaPc = "done" /\ areaViews.neighborhoodData # <<>>) =>
    IF Len(areaFilters.crimeTypes) = 0
      THEN \A i \in 1..Len(areaViews.neighborhoodData) :
             areaViews.neighborhoodData[i].total =
               AreaIncidents(areaViews.neighborhoodData[i].neighborhood)
      ELSE areaViews.activeCrimeTypes = areaFilters.crimeTypes

(***************************************************************************)
(* Totality of the reducers.                                               *)
(***************************************************************************)
\* C22: every reducer completes without throwing on every collection of
\* incidents that cleanRecord admits: once the views of a collection have
\* been computed, the daily trend builder of useChartData has not thrown and
\* its series is built.
C22_ReducersTotal ==
  aggPc = "done" =>
    /\ ~aggViews.chartThrew
    /\ Len(aggViews.chartTemporalTrends) = DaysInYear

(***************************************************************************)
(* The zero-coordinate policy of the spatial projections.                  *)
(***************************************************************************)
\* the HeatmapPoint of an incident
HeatmapPointOf(incident) ==
  [ lat |-> incident.latitude, lng |-> incident.longitude,
    offense |-> incident.offense, reportDate |-> incident.reportDate,
    shift |-> incident.shift, weight |-> 1 ]

\* the fields of a HeatmapPoint in a point of either projection
AsHeatmapPoint(p) ==
  [ lat |-> p.lat, lng |-> p.lng, offense |-> p.offense,
    reportDate |-> p.reportDate, shift |-> p.shift, weight |-> p.weight ]

\* the points of the incidents with both coordinates non-zero, in input order
SpatialPoints(data) ==
  LET located == SelectSeq(data, LAMBDA incident :
                   incident.latitude # 0 /\ incident.longitude # 0)
  IN  [i \in 1..Len(located) |-> HeatmapPointOf(located[i])]

\* C23: both spatial projections leave out the incidents whose coordinates
\* defaulted to 0 and map every other incident to one HeatmapPoint of weight
\* 1, in input order, so that they give the same points for the same
\* filtered collection.
C23_ZeroCoordinatePolicy ==
  aggPc = "done" =>
    /\ aggViews.heatMapData = SpatialPoints(aggData)
    /\ [i \in 1..Len(aggViews.chartHeatMapData) |->
          AsHeatmapPoint(aggViews.chartHeatMapData[i])] = SpatialPoints(aggData)

(***************************************************************************)
(* The diversity index.                                                    *)
(***************************************************************************)
\* C24: the diversity index of every loaded reference row lies in [0, 1):
\* it is never negative and never equal to 1, also when the total
\* population or the listed group counts of the row are 0.
C24_DiversityIndexBelowOne ==
  (cenPc = "done" /\ cenResult.kind = "data") =>
    LET index == cenResult.derivedMetrics.diversityIndex
    IN  /\ index.den > 0
        /\ 0 <= index.num
        /\ index.num < index.den

(***************************************************************************)
(* Filters component (Filters.jsx): the local selections, toggleShift,     *)
(* the initialisation from the provider's filters and applyFilters, which  *)
(* the apply-on-change effect runs after every change of a selection.  A   *)
(* selected shift is a string or one of the objects of `shifts`; a date    *)
(* input holds '' (<<>>) or a day (<<day>>).                               *)
(***************************************************************************)
ShiftObject(id) == [form |-> "object", id |-> id]
ShiftString(id) == [form |-> "string", id |-> id]

\* const shifts = [{id: 'DAY', ...}, {id: 'EVENING', ...}, {id: 'MIDNIGHT', ...}]
shifts == <<ShiftObject("DAY"), ShiftObject("EVENING"), ShiftObject("MIDNIGHT")>>

\* shifts.find(s => s.id === shiftId) || shiftId
findShift(shiftId) ==
  IF \E i \in 1..Len(shifts) : shifts[i].id = shiftId
    THEN shifts[CHOOSE i \in 1..Len(shifts) : shifts[i].id = shiftId]
    ELSE ShiftString(shiftId)

\* the updater of toggleShift (Filters.jsx:219-238)
toggleShift(prev, shift) ==
  LET shiftId == shift.id
      normalizedPrev == [i \in 1..Len(prev) |-> prev[i].id]
  IN  IF includes(normalizedPrev, shiftId)
        THEN SelectSeq(prev, LAMBDA s : s.id # shiftId)
        ELSE Append(prev, findShift(shiftId))

\* the updater of toggleCrimeType (Filters.jsx:181-191)
toggleCrimeType(prev, type) ==
  IF includes(prev, type) THEN SelectSeq(prev, LAMBDA t : t # type)
  ELSE Append(prev, type)

\* startDate && isValid(parseISO(startDate)) ? parseISO(startDate) : null
dateOfInput(text) == IF text = <<>> THEN NullDate ELSE parseISO(text[1])

\* format(date, 'yyyy-MM-dd') as the value of a date input
inputOfDate(d) == <<dayKey(d)>>

\* applyFilters passing the selected shifts as they are
applyFiltersUnmapped(start, end, types, selected) ==
  [ dateRange |-> IF Truthy(dateOfInput(start)) \/ Truthy(dateOfInput(end))
                    THEN MkRange(dateOfInput(start), dateOfInput(end))
                    ELSE NullRange,
    crimeTypes |-> types,
    shifts |-> selected ]

\* the argument that applyFilters hands to filterData (Filters.jsx:123-133)
applyFilters(start, end, types, selected) ==
  [ dateRange |-> IF Truthy(dateOfInput(start)) \/ Truthy(dateOfInput(end))
                    THEN MkRange(dateOfInput(start), dateOfInput(end))
                    ELSE NullRange,
    crimeTypes |-> types,
    shifts |-> [i \in 1..Len(selected) |-> ShiftString(selected[i].id)] ]

\* the FilterSpec that filterData receives: includes compares with ===, so
\* an element that is no string equals the shift of no incident
receivedSpec(passed) ==
  [ dateRange |-> passed.dateRange,
    crimeTypes |-> passed.crimeTypes,
    shifts |-> LET bare == SelectSeq(passed.shifts, LAMBDA s : s.form = "string")
               IN  [i \in 1..Len(bare) |-> bare[i].id] ]

(***************************************************************************)
(* Filters harness: the component mounted over the filters of the provider *)
(* and driven by the controls of the panel.                                *)
(***************************************************************************)
FilterDays == {1, 2}
FilterTypes == {"HOMICIDE", "THEFT/OTHER"}
MountShiftLists ==
  {<<>>, <<"EVENING">>, <<"MIDNIGHT", "DAY">>, <<"DAY", "EVENING", "MIDNIGHT">>}
MountFilterSpecs ==
  [ dateRange : {NullRange, MkRange(parseISO(1), NullDate),
                 MkRange(parseISO(1), parseISO(2))},
    crimeTypes : {<<>>, <<"HOMICIDE">>},
    shifts : MountShiftLists ]

FltInit ==
  /\ ProviderInit /\ LoaderIdle /\ DecIdle /\ RankIdle /\ AggIdle /\ AreaIdle
  /\ CenIdle /\ CorrIdle
  /\ selectedShifts = <<>> /\ selectedCrimeTypes = <<>>
  /\ startDate = <<>> /\ endDate = <<>>
  /\ mountFilters \in MountFilterSpecs
  /\ passedFilters = <<>>
  /\ fltPc = "mount"

\* the new selections are rendered and the apply-on-change effect
\* (Filters.jsx:261-263) calls applyFilters with them
Selections(start, end, types, selected) ==
  /\ startDate' = start
  /\ endDate' = end
  /\ selectedCrimeTypes' = types
  /\ selectedShifts' = selected
  /\ passedFilters' = applyFilters(start, end, types, selected)
  /\ UNCHANGED <<mountFilters, providerVars, loaderVars, decVars, rankVars,
                 aggVars, areaVars, cenVars, corrVars>>

\* mounting: applyFilters with the empty selections, then the
\* initialisation from filters (Filters.jsx:266-304), then applyFilters again
FiltersMount ==
  /\ fltPc = "mount"
  /\ fltPc' = "ready"
  /\ Selections(
       IF Truthy(mountFilters.dateRange.start)
         THEN inputOfDate(mountFilters.dateRange.start) ELSE startDate,
       IF Truthy(mountFilters.dateRange.end)
         THEN inputOfDate(mountFilters.dateRange.end) ELSE endDate,
       IF Len(mountFilters.crimeTypes) > 0 THEN mountFilters.crimeTypes
         ELSE selectedCrimeTypes,
       IF Len(mountFilters.shifts) > 0
         THEN [i \in 1..Len(mountFilters.shifts) |-> findShift(mountFilters.shifts[i])]
         ELSE selectedShifts)

\* a time period button (Filters.jsx:663) or a caller with the bare id
ToggleShift ==
  /\ fltPc = "ready"
  /\ \E i \in 1..Len(shifts), form \in {"object", "string"} :
       Selections(startDate, endDate, selectedCrimeTypes,
                  toggleShift(selectedShifts, [form |-> form, id |-> shifts[i].id]))
  /\ UNCHANGED fltPc

\* the "clear time of day filters" button (Filters.jsx:595-597)
ClearShifts ==
  /\ fltPc = "ready"
  /\ Len(selectedShifts) > 0
  /\ Selections(startDate, endDate, selectedCrimeTypes, <<>>)
  /\ UNCHANGED fltPc

ToggleCrimeType ==
  /\ fltPc = "ready"
  /\ \E type \in FilterTypes :
       Selections(startDate, endDate, toggleCrimeType(selectedCrimeTypes, type),
                  selectedShifts)
  /\ UNCHANGED fltPc

\* the two date inputs (Filters.jsx:544, 564)
SetStartDate ==
  /\ fltPc = "ready"
  /\ \E text \in {<<>>} \cup {<<d>> : d \in FilterDays} :
       Selections(text, endDate, selectedCrimeTypes, selectedShifts)
  /\ UNCHANGED fltPc

SetEndDate ==
  /\ fltPc = "ready"
  /\ \E text \in {<<>>} \cup {<<d>> : d \in FilterDays} :
       Selections(startDate, text, selectedCrimeTypes, selectedShifts)
  /\ UNCHANGED fltPc

\* clearDateRange (Filters.jsx:253-258)
ClearDateRange ==
  /\ fltPc = "ready"
  /\ Selections(<<>>, <<>>, selectedCrimeTypes, selectedShifts)
  /\ UNCHANGED fltPc

\* resetFilters (Filters.jsx:144-164), offered while activeFilterCount > 0
FiltersReset ==
  /\ fltPc = "ready"
  /\ \/ startDate # <<>> \/ endDate # <<>>
     \/ Len(selectedCrimeTypes) > 0 \/ Len(selectedShifts) > 0
  /\ Selections(<<>>, <<>>, <<>>, <<>>)
  /\ UNCHANGED fltPc

FltNext ==
  \/ FiltersMount
  \/ ToggleShift
  \/ ClearShifts
  \/ ToggleCrimeType
  \/ SetStartDate
  \/ SetEndDate
  \/ ClearDateRange
  \/ FiltersReset

SpecFilters == FltInit /\ [][FltNext]_vars

(***************************************************************************)
(* Properties of the Filters component.                                    *)
(***************************************************************************)
ShiftIds == {"DAY", "EVENING", "MIDNIGHT"}
IdsOf(selected) == {selected[i].id : i \in 1..Len(selected)}

\* C25: the shifts array that Filters passes to filterData holds only bare
\* string ids of DAY, EVENING, MIDNIGHT, without duplicates, and they are the
\* ids of the selected shifts; toggling a shift twice gives back the
\* selection (as a set of shifts) that was there before.
C25_ShiftsNormalizedAtBoundary ==
  fltPc = "ready" =>
    /\ \A i \in 1..Len(passedFilters.shifts) :
         /\ passedFilters.shifts[i].form = "string"
         /\ passedFilters.shifts[i].id \in ShiftIds
    /\ \A i, j \in 1..Len(passedFilters.shifts) :
         passedFilters.shifts[i] = passedFilters.shifts[j] => i = j
    /\ Len(passedFilters.shifts) = Len(selectedShifts)
    /\ IdsOf(passedFilters.shifts) = IdsOf(selectedShifts)
    /\ \A i \in 1..Len(shifts), form \in {"object", "string"} :
         LET shift == [form |-> form, id |-> shifts[i].id]
             twice == toggleShift(toggleShift(selectedShifts, shift), shift)
         IN  /\ IdsOf(twice) = IdsOf(selectedShifts)
             /\ Len(twice) = Len(selectedShifts)

\* two shift objects are selected and passed as two bare ids
C25_Witness ==
  /\ fltPc = "ready"
  /\ Len(selectedShifts) = 2
  /\ \A i \in 1..2 : selectedShifts[i].form = "object"
  /\ Len(passedFilters.shifts) = 2
  /\ \A i \in 1..2 : passedFilters.shifts[i] = ShiftString(selectedShifts[i].id)

(***************************************************************************)
(* The published views against the stored FilterSpec.                      *)
(***************************************************************************)
\* C26: in every provider state with isLoading false and error null,
\* whatever the interleaving of the filterData calls with the completion of
\* loadData, filteredRawData is the stored filters applied to rawData, and
\* heatMapData, timeDistribution, crimeTypes and temporalTrends are the
\* aggregations of that filteredRawData.
C26_ViewsFollowStoredFilters ==
  (isLoading = FALSE /\ error = NoError) =>
    /\ filteredRawData = filterIncidents(rawData, filters)
    /\ heatMapData = processHeatMapData(filteredRawData)
    /\ timeDistribution = processTimeDistribution(filteredRawData)
    /\ crimeTypes = processCrimeTypes(filteredRawData)
    /\ temporalTrends = processTemporalTrends(filteredRawData)

(***************************************************************************)
(* Termination of loadData.  Every awaited promise of loadData (the fetch, *)
(* response.text() and loadCensusData()) settles, and the event loop then  *)
(* runs the continuation: the steps of loadData are weakly fair.           *)
(***************************************************************************)
LoadStep ==
  \/ LoadFetchFail
  \/ LoadFetchOk
  \/ LoadTextFail
  \/ LoadTextOk
  \/ LoadCensusFail
  \/ LoadCensusOk

SpecLoad == Init /\ [][Next]_vars /\ WF_vars(LoadStep)

\* C27: loadData eventually reaches a state with isLoading false, on the
\* success path and on every failing one; isLoading never becomes true
\* again; and whenever isLoading is false exactly one of the two holds:
\* error is non-null, or census is non-null.
C27_LoadDataSettles ==
  /\ <>(isLoading = FALSE)
  /\ [][isLoading = FALSE => isLoading' = FALSE]_vars
  /\ [](isLoading = FALSE => ((error # NoError) # (census # NullCensus)))

\* a load has succeeded and a filter is stored: census is published and
\* error is null
C27_Witness ==
  /\ loadPc = "done"
  /\ isLoading = FALSE
  /\ error = NoError
  /\ census = LoadedCensus
  /\ Len(rawData) > 0
  /\ filters # EmptyFilterSpec

(***************************************************************************)
(* The date axis of the FilterSpec that Filters passes.                    *)
(***************************************************************************)
\* the date axis of the passed FilterSpec retains an incident
DateAxisRetains(incident) ==
  retains(incident, [dateRange |-> passedFilters.dateRange,
                     crimeTypes |-> <<>>, shifts |-> <<>>])

\* C28: with an end day selected in Filters, every incident reported on that
\* day, at any time of the day, is retained by the date axis (the start day,
\* when one is selected, not being later); and so is every incident
\* reported on the selected start day (the end day not being earlier).
C28_SelectedDaysRetained ==
  fltPc = "ready" =>
    \A d \in FilterDays, slot \in 0..(SlotsPerDay - 1) :
      LET incident == incidentWith("THEFT/OTHER", "DAY", MkDate(d, slot))
          startAllows == startDate = <<>> \/ startDate[1] <= d
          endAllows == endDate = <<>> \/ endDate[1] >= d
      IN  ((endDate = <<d>> \/ startDate = <<d>>) /\ startAllows /\ endAllows)
            => DateAxisRetains(incident)

(***************************************************************************)
(* Sub-counts and dominant category of the area rollup.                    *)
(***************************************************************************)
RECURSIVE SumSubCounts(_)
SumSubCounts(byType) ==
  IF byType = <<>> THEN 0 ELSE Head(byType)[2] + SumSubCounts(Tail(byType))

\* the number of filtered incidents of an area and a category
AreaCategoryCount(label, type) ==
  Cardinality({i \in 1..Len(AreaFiltered) :
                 /\ AreaFiltered[i].neighborhood = label
                 /\ AreaFiltered[i].offense = type})

\* C29: in every entry of the area rollup the sub-counts are those of the
\* categories of the active set, each the number of filtered incidents of
\* the area in that category and between 0 and total, and total is their
\* sum; the dominant category reported for the top area is a category of
\* the active set whose sub-count is the largest of that area.
C29_RollupTotalsAndDominant ==
  areaPc = "done" =>
    /\ \A i \in 1..Len(areaViews.neighborhoodData) :
         LET entry == areaViews.neighborhoodData[i] IN
           /\ [k \in 1..Len(entry.byType) |-> entry.byType[k][1]]
                = activeCrimeTypesOf(areaFilters)
           /\ entry.total = SumSubCounts(entry.byType)
           /\ \A k \in 1..Len(entry.byType) :
                /\ entry.byType[k][2] \in 0..entry.total
                /\ entry.byType[k][2] =
                     AreaCategoryCount(entry.neighborhood, entry.byType[k][1])
    /\ areaViews.analysisData.kind = "data" =>
         LET top == areaViews.neighborhoodData[1] IN
           /\ areaViews.analysisData.topCluster = top.neighborhood
           /\ areaViews.analysisData.totalCrimes = top.total
           /\ \E k \in 1..Len(top.byType) :
                /\ top.byType[k][1] = areaViews.analysisData.topCrimeType
                /\ top.byType[k][2] = areaViews.analysisData.topCrimeCount
                /\ \A j \in 1..Len(top.byType) : top.byType[j][2] <= top.byType[k][2]

\* the top area holds incidents of three categories, one of them outside
\* the active set, and its dominant category, with two incidents, is not
\* the first category of the active set
C29_Witness ==
  /\ areaPc = "done"
  /\ areaViews.analysisData.kind = "data"
  /\ areaViews.analysisData.topCrimeCount = 2
  /\ areaViews.analysisData.topCrimeType # activeCrimeTypesOf(areaFilters)[1]
  /\ areaViews.neighborhoodData[1].total = 2
  /\ AreaIncidents(areaViews.neighborhoodData[1].neighborhood) = 3

(***************************************************************************)
(* Correlation text against the indicator colour.                          *)
(***************************************************************************)
AnomalyTexts ==
  { "Anomaly: High crime despite high income", "Anomaly: Low crime despite low income",
    "Anomaly: High crime despite high education",
    "Anomaly: Low crime despite low education",
    "Anomaly: Low crime despite high poverty", "Anomaly: High crime despite low poverty",
    "Anomaly: High crime despite high housing values",
    "Anomaly: Low crime despite low housing values" }
AnomalyColors == {"#d97706", "#9333ea"}

\* C30: for the metrics income, education, poverty and housing, every value,
\* every area count and every top-5 set, getCorrelationText returns an
\* 'Anomaly' label exactly when getCorrelationIndicatorColor returns an
\* anomaly colour (#d97706 or #9333ea).
C30_TextAndColourAgree ==
  (corrPc = "done" /\ corrMetric \in {"income", "education", "poverty", "housing"}) =>
    (corrOut.text \in AnomalyTexts <=> corrOut.color \in AnomalyColors)

====
